---------------------------- MODULE Spec2Model ----------------------------
(***************************************************************************)
(* EcoMind: the store (users, activity_logs, user_badges), the Streamlit   *)
(* sessions that work on it, and the scoring / level / badge rules.        *)
(*                                                                         *)
(* Units.  Activity amounts and co2_grams are whole numbers here.  The     *)
(* code holds them as floats rounded to two decimals; on whole numbers     *)
(* round(x, 2), float() and DECIMAL(n,2) storage are the identity, and a   *)
(* mean is compared with a threshold by cross-multiplication (sum < t*n),  *)
(* which agrees with the float comparison for these magnitudes.            *)
(***************************************************************************)
EXTENDS Integers, Sequences, FiniteSets, TLC

VARIABLES
    users,          \* table users: username -> NoUser or the row
    activity_logs,  \* table activity_logs: a set of rows
    user_badges,    \* table user_badges: a set of rows
    today,          \* date.today(), a day number
    session,        \* st.session_state of each browser session
    handler_runs,   \* number of form handler_runs and resets started so far (bounds the run)
    award_results,  \* history: per (user, badge), how often award_badge returned True
    reported,       \* history: per (user, badge), how often it was appended to newly_earned
    credited,       \* history: per user, the points the submissions have computed so far
    since_reset,    \* history: per user, the submissions stored since the user's reset
    calc            \* a CarbonCalculator / GamificationSystem call on its own: input and result

vars == <<users, activity_logs, user_badges, today, session, handler_runs,
          award_results, reported, credited, since_reset, calc>>

-----------------------------------------------------------------------------
(* Bounds of the model *)

MaxDay == 2
MaxHandlerRuns == 2
MaxHistDay == 9
MaxEvaluations == 2
LongDays == 31
MaxCo2 == 3000
MaxScore == 1100
MaxShift == 3
MaxPredictions == 2

(* Program constants *)

EMAIL_FACTOR == 4
VIDEO_CALL_FACTOR == 150
STREAMING_FACTOR == 36
CLOUD_STORAGE_FACTOR == 10
DEVICE_USAGE_FACTOR == 20
MinUsernameLen == 3
EmissionMinLogs == 3
RecentWindow == 7
WeekWarriorDays == 7
ConsistencyKingDays == 30
ImprovementMinLogs == 14
Decimal52Limit == 1000
Decimal102Limit == 100000000
IntegerMax == 2147483647

Sessions == {"s1", "s2"}
Usernames == {"ab", "eco", "green"}
NoUser == [registered |-> FALSE]

-----------------------------------------------------------------------------
(* utils/carbon_calculator.py *)

\* the same sum without the device term
calculate_daily_footprint_no_device(emails, video_calls_hours, streaming_hours, cloud_storage_gb, device_hours) ==
    emails * EMAIL_FACTOR
    + video_calls_hours * VIDEO_CALL_FACTOR
    + streaming_hours * STREAMING_FACTOR
    + cloud_storage_gb * CLOUD_STORAGE_FACTOR

calculate_daily_footprint(emails, video_calls_hours, streaming_hours, cloud_storage_gb, device_hours) ==
    emails * EMAIL_FACTOR
    + video_calls_hours * VIDEO_CALL_FACTOR
    + streaming_hours * STREAMING_FACTOR
    + cloud_storage_gb * CLOUD_STORAGE_FACTOR
    + device_hours * DEVICE_USAGE_FACTOR

\* the dictionary get_activity_breakdown returns
get_activity_breakdown(emails, video_calls_hours, streaming_hours, cloud_storage_gb, device_hours) ==
    [Emails |-> emails * EMAIL_FACTOR,
     VideoCalls |-> video_calls_hours * VIDEO_CALL_FACTOR,
     Streaming |-> streaming_hours * STREAMING_FACTOR,
     CloudStorage |-> cloud_storage_gb * CLOUD_STORAGE_FACTOR,
     DeviceUsage |-> device_hours * DEVICE_USAGE_FACTOR]

-----------------------------------------------------------------------------
(* utils/gamification.py: scoring and levels *)

\* the bands with their upper bounds left out
calculate_daily_score_exclusive(daily_co2) ==
    IF daily_co2 < 500 THEN 20
    ELSE IF daily_co2 < 1000 THEN 15
    ELSE IF daily_co2 < 1500 THEN 10
    ELSE IF daily_co2 < 2000 THEN 5
    ELSE IF daily_co2 < 2500 THEN 2
    ELSE 1

calculate_daily_score(daily_co2) ==
    IF daily_co2 <= 500 THEN 20
    ELSE IF daily_co2 <= 1000 THEN 15
    ELSE IF daily_co2 <= 1500 THEN 10
    ELSE IF daily_co2 <= 2000 THEN 5
    ELSE IF daily_co2 <= 2500 THEN 2
    ELSE 1

\* self.levels, in insertion order; Diamond's max_score is float('inf')
levels ==
    << [name |-> "Bronze",   min_score |-> 0,    max_score |-> 100,  unbounded |-> FALSE],
       [name |-> "Silver",   min_score |-> 101,  max_score |-> 250,  unbounded |-> FALSE],
       [name |-> "Gold",     min_score |-> 251,  max_score |-> 500,  unbounded |-> FALSE],
       [name |-> "Platinum", min_score |-> 501,  max_score |-> 1000, unbounded |-> FALSE],
       [name |-> "Diamond",  min_score |-> 1001, max_score |-> 0,    unbounded |-> TRUE] >>

\* a range that leaves its max_score out
InLevelOpenTop(level_info, user_score) ==
    /\ level_info.min_score <= user_score
    /\ (level_info.unbounded \/ user_score < level_info.max_score)

\* level_info['min_score'] <= self.user_score <= level_info['max_score']
InLevel(level_info, user_score) ==
    /\ level_info.min_score <= user_score
    /\ (level_info.unbounded \/ user_score <= level_info.max_score)

\* the first level of the table whose range holds the score, else 'Diamond'
get_current_level(user_score) ==
    LET hits == {i \in 1..Len(levels) : InLevel(levels[i], user_score)}
    IN  IF hits = {} THEN "Diamond"
        ELSE levels[CHOOSE i \in hits : \A j \in hits : i <= j].name

\* a GamificationSystem object as constructed (lines 62-64); earned_badges
\* is kept with the session
NewGamification == [user_score |-> 0, current_level |-> "Bronze"]

PercentScale == 10000

\* get_level_progress on an object whose attributes are current_level and
\* user_score.  The result is in hundredths of a percent, cut off below
\* (100.0 is PercentScale).
get_level_progress(current_level, user_score) ==
    LET current_level_info ==
            levels[CHOOSE i \in 1..Len(levels) : levels[i].name = current_level]
        level_range == current_level_info.max_score - current_level_info.min_score
        current_progress == user_score - current_level_info.min_score
        progress_percent == (current_progress * PercentScale) \div level_range
    IN  IF current_level_info.unbounded THEN PercentScale
        ELSE IF progress_percent < 0 THEN 0
        ELSE IF progress_percent > PercentScale THEN PercentScale
        ELSE progress_percent

-----------------------------------------------------------------------------
(* utils/database.py: the three tables.  A user's id is identified with    *)
(* the username (ids are SERIAL, one per username, never reused).          *)

UserRow(username, total_score, current_level) ==
    [registered |-> TRUE, username |-> username,
     total_score |-> total_score, current_level |-> current_level]

LogRow(user_id, log_date, act, co2_grams) ==
    [user_id |-> user_id, log_date |-> log_date, emails |-> act.emails,
     video_calls |-> act.video_calls, streaming |-> act.streaming,
     cloud_storage |-> act.cloud_storage, device_usage |-> act.device_usage,
     co2_grams |-> co2_grams]

BadgeRow(user_id, badge_name, earned_date) ==
    [user_id |-> user_id, badge_name |-> badge_name, earned_date |-> earned_date]

\* the column types of activity_logs: INTEGER, DECIMAL(5,2) x 4, DECIMAL(10,2).
\* A value outside its column makes the INSERT raise (numeric field overflow).
ColumnsHold(act, co2_grams) ==
    /\ act.emails <= IntegerMax
    /\ act.video_calls < Decimal52Limit
    /\ act.streaming < Decimal52Limit
    /\ act.cloud_storage < Decimal52Limit
    /\ act.device_usage < Decimal52Limit
    /\ co2_grams < Decimal102Limit

\* INSERT ... VALUES (...) with no conflict clause
add_activity_log_insert_only(logs, user_id, log_date, act, co2_grams) ==
    logs \cup {LogRow(user_id, log_date, act, co2_grams)}

\* INSERT ... ON CONFLICT (user_id, log_date) DO UPDATE SET <the six value columns>
add_activity_log(logs, user_id, log_date, act, co2_grams) ==
    IF \E r \in logs : r.user_id = user_id /\ r.log_date = log_date
    THEN { IF r.user_id = user_id /\ r.log_date = log_date
           THEN [r EXCEPT !.emails = act.emails,
                          !.video_calls = act.video_calls,
                          !.streaming = act.streaming,
                          !.cloud_storage = act.cloud_storage,
                          !.device_usage = act.device_usage,
                          !.co2_grams = co2_grams]
           ELSE r : r \in logs }
    ELSE logs \cup {LogRow(user_id, log_date, act, co2_grams)}

RECURSIVE OrderByDateDesc(_)
OrderByDateDesc(rows) ==
    IF rows = {} THEN <<>>
    ELSE LET r == CHOOSE x \in rows : \A y \in rows : y.log_date <= x.log_date
         IN  <<r>> \o OrderByDateDesc(rows \ {r})

\* SELECT * FROM activity_logs WHERE user_id = %s ORDER BY log_date DESC
get_user_activity_logs(logs, user_id) ==
    OrderByDateDesc({r \in logs : r.user_id = user_id})

\* SELECT badge_name FROM user_badges WHERE user_id = %s (only membership is used)
get_user_badges(badges, user_id) ==
    {r.badge_name : r \in {x \in badges : x.user_id = user_id}}

\* INSERT with no conflict clause: always a new row, always an id returned
award_badge_insert_only(badges, user_id, badge_name, earned_date) ==
    [table |-> badges \cup {BadgeRow(user_id, badge_name, earned_date)},
     inserted |-> TRUE]

\* an award that replaces the user's other badges by the new one
award_badge_replace(badges, user_id, badge_name, earned_date) ==
    IF \E r \in badges : r.user_id = user_id /\ r.badge_name = badge_name
    THEN [table |-> badges, inserted |-> FALSE]
    ELSE [table |-> {r \in badges : r.user_id # user_id}
                    \cup {BadgeRow(user_id, badge_name, earned_date)},
          inserted |-> TRUE]

\* INSERT ... ON CONFLICT (user_id, badge_name) DO NOTHING RETURNING id;
\* the result is "result is not None"
award_badge(badges, user_id, badge_name, earned_date) ==
    IF \E r \in badges : r.user_id = user_id /\ r.badge_name = badge_name
    THEN [table |-> badges, inserted |-> FALSE]
    ELSE [table |-> badges \cup {BadgeRow(user_id, badge_name, earned_date)},
          inserted |-> TRUE]

\* the UPDATE without its WHERE clause
update_user_score_all_rows(tbl, user_id, total_score, current_level) ==
    [u \in DOMAIN tbl |->
        IF tbl[u].registered
        THEN [tbl[u] EXCEPT !.total_score = total_score, !.current_level = current_level]
        ELSE tbl[u]]

\* UPDATE users SET total_score = %s, current_level = %s WHERE id = %s
update_user_score(tbl, user_id, total_score, current_level) ==
    [u \in DOMAIN tbl |->
        IF tbl[u].registered /\ u = user_id
        THEN [tbl[u] EXCEPT !.total_score = total_score, !.current_level = current_level]
        ELSE tbl[u]]

\* INSERT INTO users ... ON CONFLICT (username) DO UPDATE SET email = EXCLUDED.email
\* (email is not kept in the model: an existing row keeps every modelled column)
\* the INSERT with ON CONFLICT (username) DO UPDATE writing the new row's columns
create_user_overwrite(tbl, username) ==
    [tbl EXCEPT ![username] = UserRow(username, 0, "Bronze")]

create_user(tbl, username) ==
    IF tbl[username].registered THEN tbl
    ELSE [tbl EXCEPT ![username] = UserRow(username, 0, "Bronze")]

\* SELECT * FROM users WHERE id = %s  /  WHERE username = %s
get_user_by_id(tbl, user_id) == tbl[user_id]

get_user_by_username(tbl, username) == tbl[username]

-----------------------------------------------------------------------------
(* pandas helpers used by the badge rules *)

RemoveAt(seq, i) ==
    [k \in 1..(Len(seq) - 1) |-> IF k < i THEN seq[k] ELSE seq[k + 1]]

\* the frame used in the order it was handed over, without the sort
sort_values_skipped(seq) == seq

\* df.sort_values('date'): ascending by date
RECURSIVE sort_values(_)
sort_values(seq) ==
    IF seq = <<>> THEN <<>>
    ELSE LET m == CHOOSE i \in 1..Len(seq) :
                    /\ \A j \in 1..Len(seq) : seq[i].log_date <= seq[j].log_date
                    /\ \A j \in 1..(i - 1) : seq[j].log_date # seq[i].log_date
         IN  <<seq[m]>> \o sort_values(RemoveAt(seq, m))

tail(seq, n) == IF Len(seq) <= n THEN seq ELSE SubSeq(seq, Len(seq) - n + 1, Len(seq))

head(seq, n) == IF Len(seq) <= n THEN seq ELSE SubSeq(seq, 1, n)

RECURSIVE SumCo2(_)
SumCo2(seq) == IF seq = <<>> THEN 0 ELSE seq[1].co2_grams + SumCo2(Tail(seq))

\* series.mean() < threshold, for a non-empty series
MeanBelow(seq, threshold) == SumCo2(seq) < threshold * Len(seq)

\* a reduction of exactly one half does not count
HalvedStrictly(df) ==
    LET first_week == SumCo2(head(df, RecentWindow))
        last_week == SumCo2(tail(df, RecentWindow))
    IN  first_week > 0 /\ 2 * (first_week - last_week) > first_week

\* first_week_avg > 0 and (first_week_avg - last_week_avg) / first_week_avg >= 0.5
HalvedSinceFirstWeek(df) ==
    LET first_week == SumCo2(head(df, RecentWindow))
        last_week == SumCo2(tail(df, RecentWindow))
    IN  first_week > 0 /\ 2 * (first_week - last_week) >= first_week

-----------------------------------------------------------------------------
(* The badge rules.  app.py's check_and_award_badges is the evaluation the *)
(* activity form runs; GamificationSystem.check_badges is the library's    *)
(* own evaluation over its earned_badges list.                             *)

BadgeNames ==
    <<"First Steps", "Week Warrior", "Consistency King", "Eco Novice",
      "Green Guardian", "Carbon Crusher", "Eco Champion", "Improvement Master">>

BadgeSet == {BadgeNames[i] : i \in 1..Len(BadgeNames)}

emission_badges ==
    [b \in {"Eco Novice", "Green Guardian", "Carbon Crusher", "Eco Champion"} |->
        CASE b = "Eco Novice" -> 2000
          [] b = "Green Guardian" -> 1500
          [] b = "Carbon Crusher" -> 1000
          [] b = "Eco Champion" -> 500]

InSeq(x, seq) == \E i \in 1..Len(seq) : seq[i] = x

\* GamificationSystem._check_consecutive_days(df, required_days)
check_consecutive_days(df, required_days) ==
    IF Len(df) < required_days THEN FALSE
    ELSE LET last_n_days == tail(df, required_days)
         IN  \A i \in 2..Len(last_n_days) :
                last_n_days[i].log_date - last_n_days[i - 1].log_date = 1

\* each emission badge for its own band of 500 g alone
RecentInBand(df, threshold) ==
    /\ MeanBelow(tail(df, RecentWindow), threshold)
    /\ ~MeanBelow(tail(df, RecentWindow), threshold - 500)

\* recent_emissions = df['co2_grams'].tail(7).mean(); recent_emissions < threshold
RecentBelow(df, threshold) == MeanBelow(tail(df, RecentWindow), threshold)

\* app.py: the condition under which check_and_award_badges tries a badge,
\* apart from "not in current_badges"
AppRule(badge, logs, df) ==
    CASE badge = "First Steps" -> Len(logs) >= 1
      [] badge = "Week Warrior" -> Len(logs) >= WeekWarriorDays
      [] badge = "Consistency King" -> Len(logs) >= ConsistencyKingDays
      [] badge \in DOMAIN emission_badges ->
            Len(logs) >= EmissionMinLogs /\ RecentBelow(df, emission_badges[badge])
      [] badge = "Improvement Master" ->
            Len(logs) >= ImprovementMinLogs /\ HalvedSinceFirstWeek(df)

NotHeld(badge, current_badges) == badge \notin current_badges

\* the badges check_and_award_badges calls award_badge for, in the order of the code
BadgesToTry(logs, current_badges) ==
    LET df == sort_values(logs)
    IN  SelectSeq(BadgeNames,
                  LAMBDA b : NotHeld(b, current_badges) /\ AppRule(b, logs, df))

\* if st.session_state.db.award_badge(...): newly_earned.append(...)
AppendIfAwarded(newly_earned, badge, inserted) ==
    IF inserted THEN Append(newly_earned, badge) ELSE newly_earned

\* gamification.py: the condition under which check_badges awards a badge,
\* apart from "not in self.earned_badges"
LibraryRule(badge, user_logs, df) ==
    CASE badge = "First Steps" -> Len(user_logs) >= 1
      [] badge = "Week Warrior" ->
            Len(user_logs) >= WeekWarriorDays /\ check_consecutive_days(df, WeekWarriorDays)
      [] badge = "Consistency King" ->
            Len(user_logs) >= ConsistencyKingDays
            /\ check_consecutive_days(df, ConsistencyKingDays)
      [] badge \in DOMAIN emission_badges -> RecentBelow(df, emission_badges[badge])
      [] badge = "Improvement Master" ->
            Len(user_logs) >= ImprovementMinLogs /\ HalvedSinceFirstWeek(df)

\* the rule alone, whatever the list holds
NotEarnedUnchecked(badge, earned_badges) == TRUE

\* badge not in self.earned_badges
NotEarned(badge, earned_badges) == ~InSeq(badge, earned_badges)

\* no early return on an empty history, and First Steps asked of any history
check_badges_on_any_history(earned_badges, user_logs) ==
    LET df == sort_values(user_logs)
        newly_earned ==
            SelectSeq(BadgeNames,
                      LAMBDA b : NotEarned(b, earned_badges)
                                 /\ (b = "First Steps" \/ LibraryRule(b, user_logs, df)))
    IN  [earned_badges |-> earned_badges \o newly_earned,
         newly_earned |-> newly_earned]

\* GamificationSystem.check_badges(user_logs) on an object whose earned_badges
\* list is given: the list afterwards and the returned newly_earned
check_badges(earned_badges, user_logs) ==
    IF user_logs = <<>>
    THEN [earned_badges |-> earned_badges, newly_earned |-> <<>>]
    ELSE LET df == sort_values(user_logs)
             newly_earned ==
                SelectSeq(BadgeNames,
                          LAMBDA b : NotEarned(b, earned_badges)
                                     /\ LibraryRule(b, user_logs, df))
         IN  [earned_badges |-> earned_badges \o newly_earned,
              newly_earned |-> newly_earned]

-----------------------------------------------------------------------------
(* Inputs of the activity form (number_input, min_value 0, no max_value) *)

Activity(emails, video_calls, streaming, cloud_storage, device_usage) ==
    [emails |-> emails, video_calls |-> video_calls, streaming |-> streaming,
     cloud_storage |-> cloud_storage, device_usage |-> device_usage]

FormDefaults == Activity(20, 2, 3, 5, 8)        \* 698 g
NoActivity == Activity(0, 0, 0, 0, 0)           \* 0 g
OutOfRange == Activity(0, 1000, 0, 0, 0)        \* video_calls does not fit DECIMAL(5,2)

FormInputs == {FormDefaults, NoActivity, OutOfRange}

Footprint(act) ==
    calculate_daily_footprint(act.emails, act.video_calls, act.streaming,
                              act.cloud_storage, act.device_usage)

\* an activity made of cloud storage alone: 10 g per GB
CloudOnly(gb) == Activity(0, 0, 0, gb, 0)

-----------------------------------------------------------------------------
(* st.session_state of one session, and the locals of the running script *)

NoBadgeCounts == [k \in Usernames \X BadgeSet |-> 0]

FreshSession ==
    [authenticated |-> FALSE, current_user |-> NoUser, user_id |-> "none",
     user_score |-> 0, earned_badges |-> <<>>,       \* the GamificationSystem object
     evaluations |-> 0, held_before |-> {},          \* history of direct evaluations
     check_runs |-> 0, earned_before |-> <<>>, check_newly |-> <<>>,
     clicked |-> "none",            \* the button whose click has triggered a run not yet made
     confirm_shown |-> FALSE,       \* the page of the last run shows "Confirm Reset"
     delete_calls |-> 0,            \* history: calls of delete_user_data by this session
     pc |-> "idle", caller |-> "none", username |-> "none", form |-> NoActivity,
     daily_co2 |-> 0, daily_points |-> 0, new_level |-> "none", logs |-> <<>>,
     current_badges |-> {}, todo |-> <<>>, newly_earned |-> <<>>]

\* the script run ends: its locals are gone
EndRun(ss) ==
    [ss EXCEPT !.pc = "idle", !.caller = "none", !.username = "none",
               !.form = NoActivity, !.daily_co2 = 0, !.daily_points = 0, !.new_level = "none",
               !.logs = <<>>, !.current_badges = {}, !.todo = <<>>,
               !.newly_earned = <<>>]

\* where check_and_award_badges returns to
AfterEvaluation(ss) == IF ss.caller = "form" THEN "refresh" ELSE "returned"

Store == <<users, activity_logs, user_badges>>

\* no call of the calculators on their own is under way
NoCalc == [op |-> "none", done |-> TRUE]

\* per user: "resetting" while a reset runs that began with no other run of
\* the user under way, "overlapped" once another run of the user has come
\* between its statements, "clean" once it has completed undisturbed; and
\* the submissions the store has taken since a clean reset
NotReset == [u \in Usernames |-> [state |-> "no", subs |-> <<>>]]

OthersIdle(s) ==
    \A o \in Sessions \ {s} :
        session[o].user_id = session[s].user_id => session[o].pc = "idle"
History == <<award_results, reported, credited>>

-----------------------------------------------------------------------------
(* app.py login_page, lines 77-99 *)

LoginSubmit(s, username) ==
    /\ ~session[s].authenticated
    /\ session[s].pc = "idle"
    /\ IF Len(username) >= MinUsernameLen
       THEN LET user == get_user_by_username(users, username)
            IN  IF user.registered
                THEN session' = [session EXCEPT ![s] =
                        [@ EXCEPT !.current_user = user, !.user_id = user.username,
                                  !.authenticated = TRUE]]
                ELSE session' = [session EXCEPT ![s] =
                        [@ EXCEPT !.pc = "create", !.username = username]]
       ELSE UNCHANGED session
    /\ UNCHANGED <<calc, since_reset, Store, History, today, handler_runs>>

LoginCreate(s) ==
    /\ session[s].pc = "create"
    /\ users' = create_user(users, session[s].username)
    /\ session' = [session EXCEPT ![s] = [@ EXCEPT !.pc = "fetch"]]
    /\ UNCHANGED <<calc, since_reset, activity_logs, user_badges, History, today, handler_runs>>

LoginFetch(s) ==
    /\ session[s].pc = "fetch"
    /\ session' = [session EXCEPT ![s] =
            [EndRun(@) EXCEPT !.current_user = get_user_by_id(users, session[s].username),
                              !.user_id = session[s].username,
                              !.authenticated = TRUE]]
    /\ UNCHANGED <<calc, since_reset, Store, History, today, handler_runs>>

\* a logout that leaves the session's user in place
LogoutKeepsUser(s) ==
    /\ session[s].authenticated
    /\ session[s].pc = "idle"
    /\ session' = [session EXCEPT ![s] = [@ EXCEPT !.authenticated = FALSE]]
    /\ UNCHANGED <<calc, since_reset, Store, History, today, handler_runs>>

(* app.py main, lines 219-223 *)
Logout(s) ==
    /\ session[s].authenticated
    /\ session[s].pc = "idle"
    /\ session' = [session EXCEPT ![s] =
            [@ EXCEPT !.authenticated = FALSE, !.current_user = NoUser,
                      !.user_id = "none"]]
    /\ UNCHANGED <<calc, since_reset, Store, History, today, handler_runs>>

-----------------------------------------------------------------------------
(* app.py dashboard_tab, lines 275-318: one submission of the activity     *)
(* form.  Every call of the store is a transaction of its own, so another  *)
(* session's calls may come between any two of them.                       *)

\* lines 277-292: compute the footprint, upsert today's record
SubmitActivity(s, act) ==
    /\ session[s].authenticated
    /\ session[s].pc = "idle"
    /\ handler_runs < MaxHandlerRuns
    /\ handler_runs' = handler_runs + 1
    /\ LET daily_co2 == Footprint(act)
       IN  IF ColumnsHold(act, daily_co2)
           THEN /\ activity_logs' =
                      add_activity_log(activity_logs, session[s].user_id, today, act, daily_co2)
                /\ session' = [session EXCEPT ![s] =
                      [@ EXCEPT !.pc = "score", !.caller = "form", !.form = act,
                                !.daily_co2 = daily_co2]]
                /\ since_reset' = [since_reset EXCEPT ![session[s].user_id] =
                      CASE @.state = "clean" ->
                              [@ EXCEPT !.subs = Append(@, [log_date |-> today, act |-> act])]
                        [] @.state = "resetting" -> [@ EXCEPT !.state = "overlapped"]
                        [] OTHER -> @]
           ELSE \* the INSERT raises: the run ends with nothing stored
                UNCHANGED <<activity_logs, session, since_reset>>
    /\ UNCHANGED <<calc, users, user_badges, History, today>>

\* lines 295-304: points, total from the session's cached user, level, UPDATE users
UpdateScore(s) ==
    /\ session[s].pc = "score"
    /\ LET daily_points == calculate_daily_score(session[s].daily_co2)
           user_score == session[s].current_user.total_score + daily_points
           new_level == get_current_level(user_score)
       IN  /\ users' = update_user_score(users, session[s].user_id, user_score, new_level)
           /\ session' = [session EXCEPT ![s] =
                 [@ EXCEPT !.pc = "logs", !.daily_points = daily_points,
                           !.user_score = user_score, !.new_level = new_level]]
           /\ credited' = [credited EXCEPT ![session[s].user_id] = @ + daily_points]
    /\ UNCHANGED <<calc, since_reset, activity_logs, user_badges, award_results, reported, today, handler_runs>>

\* check_and_award_badges, lines 103-106
ReadLogs(s) ==
    /\ session[s].pc = "logs"
    /\ LET logs == get_user_activity_logs(activity_logs, session[s].user_id)
       IN  session' = [session EXCEPT ![s] =
              [@ EXCEPT !.logs = logs, !.newly_earned = <<>>,
                        !.pc = IF logs = <<>> THEN AfterEvaluation(session[s]) ELSE "badges"]]
    /\ UNCHANGED <<calc, since_reset, Store, History, today, handler_runs>>

\* check_and_award_badges, lines 108-113, and the conditions of lines 116-151,
\* which read only logs and current_badges
ReadBadges(s) ==
    /\ session[s].pc = "badges"
    /\ LET current_badges == get_user_badges(user_badges, session[s].user_id)
           todo == BadgesToTry(session[s].logs, current_badges)
       IN  session' = [session EXCEPT ![s] =
              [@ EXCEPT !.current_badges = current_badges, !.todo = todo,
                        !.pc = IF todo = <<>> THEN AfterEvaluation(session[s]) ELSE "award"]]
    /\ UNCHANGED <<calc, since_reset, Store, History, today, handler_runs>>

\* one award_badge call of check_and_award_badges and the append that follows it
AwardStep(s) ==
    /\ session[s].pc = "award"
    /\ LET badge == Head(session[s].todo)
           uid == session[s].user_id
           res == award_badge(user_badges, uid, badge, today)
           newly_earned == AppendIfAwarded(session[s].newly_earned, badge, res.inserted)
       IN  /\ user_badges' = res.table
           /\ award_results' = [award_results EXCEPT ![<<uid, badge>>] =
                                    IF res.inserted THEN @ + 1 ELSE @]
           /\ reported' = [reported EXCEPT ![<<uid, badge>>] =
                                    IF Len(newly_earned) > Len(session[s].newly_earned)
                                    THEN @ + 1 ELSE @]
           /\ session' = [session EXCEPT ![s] =
                 [@ EXCEPT !.newly_earned = newly_earned, !.todo = Tail(@),
                           !.pc = IF Tail(session[s].todo) = <<>>
                                  THEN AfterEvaluation(session[s]) ELSE "award"]]
    /\ UNCHANGED <<calc, since_reset, users, activity_logs, credited, today, handler_runs>>

\* line 310 (and line 1217): refresh the session's user; st.rerun() ends the run
\* the run ends after the evaluation without reading the user again
RefreshSkipped(s) ==
    /\ session[s].pc = "refresh"
    /\ session' = [session EXCEPT ![s] = EndRun(@)]
    /\ UNCHANGED <<calc, since_reset, Store, History, today, handler_runs>>

Refresh(s) ==
    /\ session[s].pc = "refresh"
    /\ session' = [session EXCEPT ![s] =
            [EndRun(@) EXCEPT !.current_user = get_user_by_id(users, session[s].user_id)]]
    /\ UNCHANGED <<calc, since_reset, Store, History, today, handler_runs>>

\* a store call of the run raises (execute_query / execute_insert let the
\* psycopg2 error or ConnectionError through) or the script run is stopped:
\* what the earlier calls committed stays, the rest of the run does not happen
RunStops(s) ==
    /\ session[s].pc \in {"score", "logs", "badges", "award"}
    /\ session[s].caller = "form"
    /\ session' = [session EXCEPT ![s] = EndRun(@)]
    /\ UNCHANGED <<calc, since_reset, Store, History, today, handler_runs>>

\* date.today() moves on
Tick ==
    /\ today < MaxDay
    /\ today' = today + 1
    /\ UNCHANGED <<calc, since_reset, Store, History, session, handler_runs>>

-----------------------------------------------------------------------------
(* Direct calls, outside the activity form: check_and_award_badges(user_id) *)
(* and GamificationSystem.check_badges(user_logs) on the session's object.  *)

StartEvaluation(s) ==
    /\ session[s].authenticated
    /\ session[s].pc = "idle"
    /\ session[s].evaluations < MaxEvaluations
    /\ session' = [session EXCEPT ![s] =
            [@ EXCEPT !.pc = "logs", !.caller = "direct",
                      !.evaluations = @ + 1,
                      !.held_before = get_user_badges(user_badges, session[s].user_id)]]
    /\ UNCHANGED <<calc, since_reset, Store, History, today, handler_runs>>

\* the caller has the returned list in hand (pc = "returned"); the run ends
EvaluationReturned(s) ==
    /\ session[s].pc = "returned"
    /\ session' = [session EXCEPT ![s] = EndRun(@)]
    /\ UNCHANGED <<calc, since_reset, Store, History, today, handler_runs>>

CheckBadges(s) ==
    /\ session[s].authenticated
    /\ session[s].pc = "idle"
    /\ session[s].check_runs < MaxEvaluations
    /\ LET user_logs == get_user_activity_logs(activity_logs, session[s].user_id)
           res == check_badges(session[s].earned_badges, user_logs)
       IN  session' = [session EXCEPT ![s] =
              [@ EXCEPT !.check_runs = @ + 1,
                        !.earned_before = session[s].earned_badges,
                        !.earned_badges = res.earned_badges,
                        !.check_newly = res.newly_earned]]
    /\ UNCHANGED <<calc, since_reset, Store, History, today, handler_runs>>

-----------------------------------------------------------------------------
(* app.py profile_tab, lines 1216-1217, and database.py delete_user_data:  *)
(* three statements, each committed on a connection of its own.            *)

ResetBadges(s) ==
    /\ session[s].authenticated
    /\ session[s].pc = "idle"
    /\ handler_runs < MaxHandlerRuns
    /\ handler_runs' = handler_runs + 1
    /\ user_badges' = {r \in user_badges : r.user_id # session[s].user_id}
    /\ session' = [session EXCEPT ![s] = [@ EXCEPT !.pc = "reset_logs"]]
    /\ since_reset' = [since_reset EXCEPT ![session[s].user_id] =
            [state |-> IF OthersIdle(s) THEN "resetting" ELSE "overlapped", subs |-> <<>>]]
    /\ UNCHANGED <<calc, users, activity_logs, History, today>>

ResetLogs(s) ==
    /\ session[s].pc = "reset_logs"
    /\ activity_logs' = {r \in activity_logs : r.user_id # session[s].user_id}
    /\ session' = [session EXCEPT ![s] = [@ EXCEPT !.pc = "reset_score"]]
    /\ UNCHANGED <<calc, since_reset, users, user_badges, History, today, handler_runs>>

ResetScore(s) ==
    /\ session[s].pc = "reset_score"
    /\ users' = update_user_score(users, session[s].user_id, 0, "Bronze")
    /\ session' = [session EXCEPT ![s] = [@ EXCEPT !.pc = "refresh"]]
    /\ credited' = [credited EXCEPT ![session[s].user_id] = 0]
    /\ since_reset' = [since_reset EXCEPT ![session[s].user_id] =
            [state |-> IF @.state = "resetting" THEN "clean" ELSE "no", subs |-> <<>>]]
    /\ UNCHANGED <<calc, activity_logs, user_badges, award_results, reported, today, handler_runs>>

-----------------------------------------------------------------------------
(* app.py profile_tab, lines 1212-1219: the two buttons.  A click makes    *)
(* the script run once more from the top; st.button returns True only in   *)
(* the run its own click has triggered, and a button is on the page only   *)
(* if the last run has executed its st.button call.                        *)

st_button(clicked, key) == clicked = key

\* database.py delete_user_data, lines 308-316: the three statements
delete_user_data(store, user_id) ==
    [user_badges |-> {r \in store.user_badges : r.user_id # user_id},
     activity_logs |-> {r \in store.activity_logs : r.user_id # user_id},
     users |-> update_user_score(store.users, user_id, 0, "Bronze")]

\* "Reset All Data" is on every page of the main view
ClickResetAll(s) ==
    /\ session[s].authenticated
    /\ session[s].pc = "idle" /\ session[s].clicked = "none"
    /\ session' = [session EXCEPT ![s] = [@ EXCEPT !.clicked = "reset_all"]]
    /\ UNCHANGED <<calc, since_reset, Store, History, today, handler_runs>>

ClickConfirmReset(s) ==
    /\ session[s].authenticated
    /\ session[s].pc = "idle" /\ session[s].clicked = "none"
    /\ session[s].confirm_shown
    /\ session' = [session EXCEPT ![s] = [@ EXCEPT !.clicked = "confirm_reset"]]
    /\ UNCHANGED <<calc, since_reset, Store, History, today, handler_runs>>

\* the run a click has triggered, as far as lines 1213-1219 go
ProfileRun(s) ==
    /\ session[s].authenticated
    /\ session[s].pc = "idle" /\ session[s].clicked # "none"
    /\ LET clicked == session[s].clicked
           uid == session[s].user_id
       IN  IF st_button(clicked, "reset_all")
           THEN IF st_button(clicked, "confirm_reset")
                THEN LET store == delete_user_data(
                                    [users |-> users, activity_logs |-> activity_logs,
                                     user_badges |-> user_badges], uid)
                     IN  /\ users' = store.users
                         /\ activity_logs' = store.activity_logs
                         /\ user_badges' = store.user_badges
                         /\ session' = [session EXCEPT ![s] =
                               [@ EXCEPT !.current_user = get_user_by_id(store.users, uid),
                                         !.clicked = "none", !.confirm_shown = FALSE,
                                         !.delete_calls = @ + 1]]
                ELSE /\ session' = [session EXCEPT ![s] =
                               [@ EXCEPT !.clicked = "none", !.confirm_shown = TRUE]]
                     /\ UNCHANGED Store
           ELSE /\ session' = [session EXCEPT ![s] =
                      [@ EXCEPT !.clicked = "none", !.confirm_shown = FALSE]]
                /\ UNCHANGED Store
    /\ UNCHANGED <<calc, since_reset, History, today, handler_runs>>

-----------------------------------------------------------------------------

(* Initial states.  The store outlives the sessions, so a session may find *)
(* in it what earlier sessions left.  User "eco" is registered, with one   *)
(* of the PriorStores: nothing yet; or a total of points from submissions  *)
(* of an earlier day (day 0) whose last one, FormDefaults, is that day's   *)
(* record; or two earlier days of FormDefaults, submitted once each.       *)

PriorStores ==
    {[total_score |-> 0, days |-> <<>>]}
    \cup {[total_score |-> p, days |-> <<FormDefaults>>] : p \in {85, 231, 485, 981}}
    \cup {[total_score |-> 30, days |-> <<FormDefaults, FormDefaults>>]}

\* the records of a prior store: days[i] on day i - Len(days), so the last is day 0
PriorLogs(user_id, days) ==
    {LogRow(user_id, i - Len(days), days[i], Footprint(days[i])) : i \in 1..Len(days)}

Init ==
    /\ today = 1
    /\ handler_runs = 0
    /\ session = [s \in Sessions |-> FreshSession]
    /\ reported = NoBadgeCounts
    /\ since_reset = NotReset
    /\ calc = NoCalc
    /\ \E p \in PriorStores :
          /\ users = [u \in Usernames |->
                        IF u = "eco"
                        THEN UserRow("eco", p.total_score, get_current_level(p.total_score))
                        ELSE NoUser]
          /\ credited = [u \in Usernames |-> IF u = "eco" THEN p.total_score ELSE 0]
          /\ activity_logs = PriorLogs("eco", p.days)
          /\ user_badges =
                IF p.days = <<>> THEN {}
                ELSE {BadgeRow("eco", "First Steps", 1 - Len(p.days))}
          /\ award_results =
                [NoBadgeCounts EXCEPT ![<<"eco", "First Steps">>] =
                    IF p.days = <<>> THEN 0 ELSE 1]

Login == \E s \in Sessions, username \in Usernames : LoginSubmit(s, username)
CreateUser == \E s \in Sessions : LoginCreate(s)
FetchUser == \E s \in Sessions : LoginFetch(s)
LogoutClick == \E s \in Sessions : Logout(s)
Submit == \E s \in Sessions, act \in FormInputs : SubmitActivity(s, act)
Score == \E s \in Sessions : UpdateScore(s)
FetchLogs == \E s \in Sessions : ReadLogs(s)
FetchBadges == \E s \in Sessions : ReadBadges(s)
Award == \E s \in Sessions : AwardStep(s)
RefreshUser == \E s \in Sessions : Refresh(s)

Next ==
    \/ Login
    \/ CreateUser
    \/ FetchUser
    \/ LogoutClick
    \/ Submit
    \/ Score
    \/ FetchLogs
    \/ FetchBadges
    \/ Award
    \/ RefreshUser
    \/ Tick

Spec == Init /\ [][Next]_vars

-----------------------------------------------------------------------------
(* Two sessions of one user on one day: both log in as "eco" and stay     *)
(* logged in; the earlier days of the history are those of the prior store. *)

SameUserLogin == \E s \in Sessions : LoginSubmit(s, "eco")

NextSameUser ==
    \/ SameUserLogin
    \/ Submit
    \/ Score
    \/ FetchLogs
    \/ FetchBadges
    \/ Award
    \/ RefreshUser

SpecSameUser == Init /\ [][NextSameUser]_vars

(* Registration, submissions and the reset of profile_tab (lines 1216-1217) *)
(* run as written, by any user's sessions on one day.                      *)

DeleteBadges == \E s \in Sessions : ResetBadges(s)
DeleteLogs == \E s \in Sessions : ResetLogs(s)
ZeroScore == \E s \in Sessions : ResetScore(s)

NextReset ==
    \/ Login
    \/ CreateUser
    \/ FetchUser
    \/ Submit
    \/ Score
    \/ FetchLogs
    \/ FetchBadges
    \/ Award
    \/ RefreshUser
    \/ DeleteBadges
    \/ DeleteLogs
    \/ ZeroScore

SpecReset == Init /\ [][NextReset]_vars

(* Two sessions of one user, with runs that may stop between two calls of *)
(* the store.                                                              *)

Stop == \E s \in Sessions : RunStops(s)

NextStops ==
    \/ SameUserLogin
    \/ Submit
    \/ Score
    \/ FetchLogs
    \/ FetchBadges
    \/ Award
    \/ RefreshUser
    \/ Stop

SpecStops == Init /\ [][NextStops]_vars

-----------------------------------------------------------------------------
(* The profile view's buttons, pressed by logged-in sessions; a run that   *)
(* a click has triggered is made in the end.                               *)

PressResetAll == \E s \in Sessions : ClickResetAll(s)
PressConfirmReset == \E s \in Sessions : ClickConfirmReset(s)
RunProfile == \E s \in Sessions : ProfileRun(s)

NextProfile ==
    \/ Login
    \/ CreateUser
    \/ FetchUser
    \/ PressResetAll
    \/ PressConfirmReset
    \/ RunProfile

SpecProfile ==
    Init /\ [][NextProfile]_vars /\ \A s \in Sessions : WF_vars(ProfileRun(s))

(* Logging in and out, registration and submissions, by any user's        *)
(* sessions on one day.                                                    *)

NextSession ==
    \/ Login
    \/ CreateUser
    \/ FetchUser
    \/ LogoutClick
    \/ Submit
    \/ Score
    \/ FetchLogs
    \/ FetchBadges
    \/ Award
    \/ RefreshUser

SpecSession == Init /\ [][NextSession]_vars

(* The badge rules on their own: the store holds a history drawn from      *)
(* Histories and a held badge set drawn from HeldSets; session s1, logged  *)
(* in as "eco", calls check_and_award_badges and check_badges directly.    *)

\* a history: a record on every day of dates, of cloud storage alone,
\* early GB on the days up to split and late GB after them
Shape(dates, split, early, late) ==
    [dates |-> dates, split |-> split, early |-> early, late |-> late]

ShapeLogs(user_id, h) ==
    {LogRow(user_id, d, CloudOnly(IF d <= h.split THEN h.early ELSE h.late),
            Footprint(CloudOnly(IF d <= h.split THEN h.early ELSE h.late))) : d \in h.dates}

CloudChoices == {49, 50, 100, 150, 200, 260}

GapChoices == {0, 1, 2, 15}

\* GB per day of the first week and of the days after it
WeekChoices == {<<200, 90>>, <<200, 100>>, <<200, 110>>, <<0, 0>>, <<0, 50>>}

Histories ==
    \* any set of days, every day the same
    {Shape(D, 0, 260, 260) : D \in SUBSET (1..MaxHistDay)}
    \* every day from day 1 on, the oldest day set apart
    \cup {Shape(1..n, 1, e, l) : n \in 0..MaxHistDay, e \in CloudChoices, l \in CloudChoices}
    \* a month with at most one day missing, the first week set apart
    \cup {Shape((1..n) \ {g}, RecentWindow, w[1], w[2]) :
             n \in (ConsistencyKingDays - 1)..LongDays, g \in GapChoices,
             w \in {<<200, 90>>, <<200, 110>>}}
    \* a fortnight, a day less and a day more, the first week set apart
    \cup {Shape(1..n, RecentWindow, w[1], w[2]) :
             n \in (ImprovementMinLogs - 1)..(ImprovementMinLogs + 1), w \in WeekChoices}

HeldSets ==
    { {}, {"First Steps", "Eco Novice"}, {"First Steps", "Eco Novice", "Green Guardian"},
      {"First Steps", "Week Warrior"} }

RECURSIVE SumScores(_)
SumScores(rows) ==
    IF rows = {} THEN 0
    ELSE LET r == CHOOSE x \in rows : TRUE
         IN  calculate_daily_score(r.co2_grams) + SumScores(rows \ {r})

InitBadges ==
    /\ today = LongDays
    /\ handler_runs = 0
    /\ reported = NoBadgeCounts
    /\ since_reset = NotReset
    /\ calc = NoCalc
    /\ \E h \in Histories, held \in HeldSets :
          LET rows == ShapeLogs("eco", h)
              total == SumScores(rows)
              row == UserRow("eco", total, get_current_level(total))
          IN  /\ activity_logs = rows
              /\ credited = [u \in Usernames |-> IF u = "eco" THEN total ELSE 0]
              /\ user_badges = {BadgeRow("eco", b, LongDays) : b \in held}
              /\ users = [u \in Usernames |-> IF u = "eco" THEN row ELSE NoUser]
              /\ award_results =
                    [k \in Usernames \X BadgeSet |->
                        IF k[1] = "eco" /\ k[2] \in held THEN 1 ELSE 0]
              /\ session = [s \in Sessions |->
                    IF s = "s1"
                    THEN [FreshSession EXCEPT !.authenticated = TRUE,
                                              !.current_user = row, !.user_id = "eco"]
                    ELSE FreshSession]

Evaluate == \E s \in Sessions : StartEvaluation(s)
Returned == \E s \in Sessions : EvaluationReturned(s)
LibraryCheck == \E s \in Sessions : CheckBadges(s)

NextBadges ==
    \/ Evaluate
    \/ FetchLogs
    \/ FetchBadges
    \/ Award
    \/ Returned
    \/ LibraryCheck

SpecBadges == InitBadges /\ [][NextBadges]_vars

-----------------------------------------------------------------------------
(* The calculators called on their own: one call of CarbonCalculator or    *)
(* GamificationSystem, or one evaluation of the badge rules, on an input   *)
(* drawn at the start; no session is logged in and the store is empty.     *)

\* two footprints, the second at least the first
CoGaps == {0, 1, 500}

ScoreInputs ==
    {[op |-> "score", done |-> FALSE, daily_co2 |-> c, more_co2 |-> c + d,
      points |-> 0, more_points |-> 0] : c \in 0..MaxCo2, d \in CoGaps}

LevelInputs ==
    {[op |-> "level", done |-> FALSE, user_score |-> n, level |-> "none"] :
        n \in 0..MaxScore}

\* profile_tab: the session's object as constructed, and the stored total
ProgressInputs ==
    {[op |-> "progress", done |-> FALSE, gamification |-> NewGamification,
      total_score |-> n, current_level |-> "none", progress |-> 0] : n \in 0..MaxScore}

FootprintInputs ==
    {[op |-> "footprint", done |-> FALSE,
      act |-> Activity(e, v, st, c, d), total |-> 0,
      breakdown |-> get_activity_breakdown(0, 0, 0, 0, 0)] :
        e \in {0, 1, 20}, v \in {0, 2, 999}, st \in {0, 3}, c \in {0, 5}, d \in {0, 8, 24}}

\* the order in which an evaluation is handed the records: the store's
\* order (latest first) moved round by shift places, and then turned over or not
Orders == [shift : 0..MaxShift, reversed : BOOLEAN]

Reverse(seq) == [i \in 1..Len(seq) |-> seq[Len(seq) + 1 - i]]

Rotate(seq, k) ==
    IF seq = <<>> THEN seq
    ELSE [i \in 1..Len(seq) |-> seq[((i - 1 + k) % Len(seq)) + 1]]

Reordered(seq, order) ==
    IF order.reversed THEN Reverse(Rotate(seq, order.shift))
    ELSE Rotate(seq, order.shift)

BadgeInputs ==
    {[op |-> "badges", done |-> FALSE, rows |-> ShapeLogs("eco", h), held |-> held,
      order |-> o, app_newly |-> <<>>, lib_newly |-> <<>>] :
        h \in Histories, held \in HeldSets, o \in Orders}

\* nobody is logged in and nothing is stored
NothingStored ==
    /\ today = 1
    /\ handler_runs = 0
    /\ users = [u \in Usernames |-> NoUser]
    /\ activity_logs = {}
    /\ user_badges = {}
    /\ session = [s \in Sessions |-> FreshSession]
    /\ award_results = NoBadgeCounts
    /\ reported = NoBadgeCounts
    /\ credited = [u \in Usernames |-> 0]
    /\ since_reset = NotReset

InitCalc ==
    /\ NothingStored
    /\ \/ calc \in ScoreInputs
       \/ calc \in LevelInputs
       \/ calc \in ProgressInputs
       \/ calc \in FootprintInputs
       \/ calc \in BadgeInputs

Untouched == <<Store, History, since_reset, session, today, handler_runs>>

\* GamificationSystem.calculate_daily_score, called for two footprints
DailyScore ==
    /\ calc.op = "score" /\ ~calc.done
    /\ calc' = [calc EXCEPT !.done = TRUE,
                            !.points = calculate_daily_score(calc.daily_co2),
                            !.more_points = calculate_daily_score(calc.more_co2)]
    /\ UNCHANGED Untouched

\* gamification.user_score = n; gamification.get_current_level()
CurrentLevel ==
    /\ calc.op = "level" /\ ~calc.done
    /\ calc' = [calc EXCEPT !.done = TRUE, !.level = get_current_level(calc.user_score)]
    /\ UNCHANGED Untouched

\* profile_tab, lines 1114-1116: user_score is set to the stored total, the
\* level is computed and returned, and get_level_progress reads the object's
\* current_level attribute, which neither line assigns
LevelProgress ==
    /\ calc.op = "progress" /\ ~calc.done
    /\ LET gamification == [calc.gamification EXCEPT !.user_score = calc.total_score]
       IN  calc' = [calc EXCEPT
                !.done = TRUE,
                !.gamification = gamification,
                !.current_level = get_current_level(gamification.user_score),
                !.progress = get_level_progress(gamification.current_level,
                                                gamification.user_score)]
    /\ UNCHANGED Untouched

\* calculate_daily_footprint and get_activity_breakdown on the same inputs
FootprintAndBreakdown ==
    /\ calc.op = "footprint" /\ ~calc.done
    /\ LET a == calc.act
       IN  calc' = [calc EXCEPT
                !.done = TRUE,
                !.total = calculate_daily_footprint(a.emails, a.video_calls, a.streaming,
                                                    a.cloud_storage, a.device_usage),
                !.breakdown = get_activity_breakdown(a.emails, a.video_calls, a.streaming,
                                                     a.cloud_storage, a.device_usage)]
    /\ UNCHANGED Untouched

\* the two evaluations on the records in the order drawn: the badges
\* check_and_award_badges calls award_badge for (none of them held, so each
\* is awarded), and check_badges on an object that has earned the held ones
ReorderedEvaluation ==
    /\ calc.op = "badges" /\ ~calc.done
    /\ LET logs == Reordered(get_user_activity_logs(calc.rows, "eco"), calc.order)
           earned_badges == SelectSeq(BadgeNames, LAMBDA b : b \in calc.held)
       IN  calc' = [calc EXCEPT
                !.done = TRUE,
                !.app_newly = IF logs = <<>> THEN <<>> ELSE BadgesToTry(logs, calc.held),
                !.lib_newly = check_badges(earned_badges, logs).newly_earned]
    /\ UNCHANGED Untouched

NextCalc ==
    \/ DailyScore
    \/ CurrentLevel
    \/ LevelProgress
    \/ FootprintAndBreakdown
    \/ ReorderedEvaluation

SpecCalc == InitCalc /\ [][NextCalc]_vars

-----------------------------------------------------------------------------
(* ml_model.py: CarbonPredictor.  The forest itself is not modelled: what  *)
(* a trained model predicts for one day is any of ForestOutputs.           *)

\* the statements of load_or_train_model and train_model that may raise, in
\* the order in which they run (lines 30, 33, 104, 107, 108, 119, 122, 125)
TrainingSteps ==
    <<"RandomForestRegressor", "generate_training_data", "train_test_split",
      "fit_transform", "transform", "fit", "score", "print">>

\* the statement that raises during construction, or none
FailurePoints == {"none"} \cup {TrainingSteps[i] : i \in 1..Len(TrainingSteps)}

StepIndex(step) == CHOOSE i \in 1..Len(TrainingSteps) : TrainingSteps[i] = step

\* the statement has run to its end when the failure comes later or never
Completes(step, fail) == fail = "none" \/ StepIndex(step) < StepIndex(fail)

\* __init__, lines 17-19
NewPredictor == [model |-> "None", scaler_fitted |-> FALSE, is_trained |-> FALSE]

\* lines 24-39 with train_model (91-127): the try block as far as it gets,
\* then the except branch if a statement raised
load_or_train_model(self, fail) ==
    LET tried ==
          [model |-> IF Completes("fit", fail) THEN "fitted"
                     ELSE IF Completes("RandomForestRegressor", fail) THEN "unfitted"
                     ELSE self.model,
           scaler_fitted |-> self.scaler_fitted \/ Completes("fit_transform", fail),
           is_trained |-> self.is_trained \/ fail = "none"]
    IN  IF fail = "none" THEN tried ELSE [tried EXCEPT !.model = "None"]

\* CarbonPredictor()
CarbonPredictor(fail) == load_or_train_model(NewPredictor, fail)

\* the fallback computed without the factor days
predict_emissions_per_day(self, act, days, forest) ==
    [raised |-> FALSE,
     value |-> act.emails * 4 + act.video_calls * 150 + act.streaming * 36
               + act.cloud_storage * 10 + act.device_usage * 20]

\* lines 129-165; forest is what model.predict gives for one day
predict_emissions(self, act, days, forest) ==
    IF ~self.is_trained \/ self.model = "None"
    THEN [raised |-> FALSE,
          value |-> (act.emails * 4 + act.video_calls * 150 + act.streaming * 36
                     + act.cloud_storage * 10 + act.device_usage * 20) * days]
    ELSE IF ~self.scaler_fitted \/ self.model # "fitted"
         THEN [raised |-> TRUE, value |-> 0]      \* NotFittedError
         ELSE [raised |-> FALSE,
               value |-> IF forest * days > 0 THEN forest * days ELSE 0]

ForestOutputs == {0, 698, 2500}

\* the selectbox of predictions_tab, line 437
PredictionDays == {1, 7, 30}

PlannedActivities ==
    {Activity(e, v, st, c, d) :
        e \in {0, 25}, v \in {0, 3}, st \in {0, 4}, c \in {0, 6}, d \in {0, 9}}

\* a session's predictor before it is constructed
InitPredictor ==
    /\ NothingStored
    /\ calc = [op |-> "predictor", done |-> FALSE, fail |-> "none",
               predictor |-> NewPredictor, calls |-> 0,
               act |-> NoActivity, days |-> 1,
               result |-> [raised |-> FALSE, value |-> 0]]

\* app.py lines 25-26: st.session_state.predictor = CarbonPredictor()
ConstructPredictor ==
    /\ calc.op = "predictor" /\ ~calc.done
    /\ \E fail \in FailurePoints :
          calc' = [calc EXCEPT !.done = TRUE, !.fail = fail,
                               !.predictor = CarbonPredictor(fail)]
    /\ UNCHANGED Untouched

\* predictions_tab, lines 441-445: one call of predict_emissions
Predict ==
    /\ calc.op = "predictor" /\ calc.done
    /\ calc.calls < MaxPredictions
    /\ \E act \in PlannedActivities, days \in PredictionDays, forest \in ForestOutputs :
          calc' = [calc EXCEPT !.calls = @ + 1, !.act = act, !.days = days,
                               !.result = predict_emissions(calc.predictor, act, days, forest)]
    /\ UNCHANGED Untouched

NextPredictor ==
    \/ ConstructPredictor
    \/ Predict

SpecPredictor == InitPredictor /\ [][NextPredictor]_vars

-----------------------------------------------------------------------------

(* The views of app.py that compute a progress bar's value or a savings    *)
(* percentage from what the store holds.  A value is kept as a fraction    *)
(* num / den with den > 0, so that no division is rounded.                 *)

Fraction(num, den) == [num |-> num, den |-> den]

Max(a, b) == IF a >= b THEN a ELSE b
Min(a, b) == IF a <= b THEN a ELSE b

\* st.progress(value) accepts a float value with 0.0 <= value <= 1.0 and
\* raises StreamlitAPIException otherwise
ProgressAccepts(value) == 0 <= value.num /\ value.num <= value.den

\* dashboard_tab, lines 328-339: max(0, 100 - mean(co2 of user_logs[:7]) / 50) / 100
green_score_bar(user_logs) ==
    IF user_logs # <<>>
    THEN LET recent_logs == head(user_logs, RecentWindow)
             n == Len(recent_logs)
         IN  Fraction(Max(0, 100 * 50 * n - SumCo2(recent_logs)), 100 * 50 * n)
    ELSE Fraction(50, 100)

\* profile_tab, lines 1114-1119: progress / 100, progress in hundredths of a percent
level_bar(gamification, total_score) ==
    LET scored == [gamification EXCEPT !.user_score = total_score]
    IN  Fraction(get_level_progress(scored.current_level, scored.user_score), PercentScale)

\* community_tab, lines 765-770:
\* min(100, (2500 - mean(co2 of user_logs[:7])) / 2500 * 100) / 100
challenge_bar(user_logs) ==
    IF user_logs # <<>> /\ Len(user_logs) >= RecentWindow
    THEN LET recent == head(user_logs, RecentWindow)
             n == Len(recent)
         IN  [shown |-> TRUE,
              value |-> Fraction(Min(2500 * n, 2500 * n - SumCo2(recent)), 2500 * n)]
    ELSE [shown |-> FALSE, value |-> Fraction(0, 1)]

\* predictions_tab, lines 467-480, in tenths of a gram: the footprint of
\* base_data with each activity taken at so many tenths of its amount
scenario_footprint(base_data, tenths) ==
    calculate_daily_footprint(base_data.emails * tenths[1], base_data.video_calls * tenths[2],
                              base_data.streaming * tenths[3], base_data.cloud_storage * tenths[4],
                              base_data.device_usage * tenths[5])

\* lines 497-498: savings / current_co2 * 100 on Python floats, which raises
\* ZeroDivisionError when current_co2 is 0.0
savings_percent(savings, current_co2) ==
    IF current_co2 = 0
    THEN [raised |-> TRUE, value |-> Fraction(0, 1)]
    ELSE [raised |-> FALSE, value |-> Fraction(savings * 100, current_co2)]

\* lines 463-498 for the latest record
optimization_scenarios(base_data) ==
    LET current_co2 == scenario_footprint(base_data, <<10, 10, 10, 10, 10>>)
        eco_mode == scenario_footprint(base_data, <<7, 8, 6, 9, 8>>)
        green_champion == scenario_footprint(base_data, <<5, 6, 4, 7, 6>>)
    IN  [current_co2 |-> current_co2,
         eco |-> savings_percent(current_co2 - eco_mode, current_co2),
         champion |-> savings_percent(current_co2 - green_champion, current_co2)]

\* totals a user row may hold
StoredScores == {0, 50, 100, 101, 1001}

NoBar == Fraction(0, 1)

PageInputs ==
    {[op |-> "page", rows |-> ShapeLogs("eco", h), total_score |-> n,
      bars_done |-> FALSE, green |-> NoBar, level |-> NoBar,
      challenge |-> [shown |-> FALSE, value |-> NoBar],
      scenarios_done |-> FALSE, scenarios_shown |-> FALSE,
      scenarios |-> optimization_scenarios(FormDefaults)] :
        h \in Histories, n \in StoredScores}

InitPages ==
    /\ NothingStored
    /\ calc \in PageInputs

\* the three st.progress calls of one run of main
ProgressBars ==
    /\ calc.op = "page" /\ ~calc.bars_done
    /\ LET user_logs == get_user_activity_logs(calc.rows, "eco")
       IN  calc' = [calc EXCEPT !.bars_done = TRUE,
                                !.green = green_score_bar(user_logs),
                                !.level = level_bar(NewGamification, calc.total_score),
                                !.challenge = challenge_bar(user_logs)]
    /\ UNCHANGED Untouched

\* predictions_tab, lines 463-500: get_user_activity_logs(user_id, limit=1)
OptimizationScenarios ==
    /\ calc.op = "page" /\ ~calc.scenarios_done
    /\ LET user_logs == head(get_user_activity_logs(calc.rows, "eco"), 1)
       IN  IF user_logs # <<>>
           THEN calc' = [calc EXCEPT !.scenarios_done = TRUE, !.scenarios_shown = TRUE,
                                     !.scenarios = optimization_scenarios(user_logs[1])]
           ELSE calc' = [calc EXCEPT !.scenarios_done = TRUE]
    /\ UNCHANGED Untouched

NextPages ==
    \/ ProgressBars
    \/ OptimizationScenarios

SpecPages == InitPages /\ [][NextPages]_vars

-----------------------------------------------------------------------------

(* recommender.py: EcoRecommender.  A recommendation is named by its       *)
(* category and its place in the category's list; random.choice and        *)
(* random.sample are choices among all their possible outcomes.            *)

\* __init__, lines 11-132: the difficulty of each entry, by category key
Difficulty ==
    [email |-> <<"easy", "easy", "easy">>,
     video_calls |-> <<"easy", "easy", "easy">>,
     streaming |-> <<"easy", "medium", "easy">>,
     cloud_storage |-> <<"medium", "medium", "hard">>,
     device_usage |-> <<"easy", "easy", "easy">>,
     general |-> <<"easy", "medium", "easy">>]

Rec(category, i) ==
    [category |-> category, index |-> i, difficulty |-> Difficulty[category][i]]

\* self.recommendations[key], for a key that is in the dictionary
recommendations(key) == {Rec(key, i) : i \in 1..Len(Difficulty[key])}

\* the keys of the activities dictionary, in its order (lines 147-153, 229-235)
ActivityKeys == <<"emails", "video_calls", "streaming", "cloud_storage", "device_usage">>

\* lines 147-153
activities(user_log) ==
    [emails |-> user_log.emails * 4,
     video_calls |-> user_log.video_calls * 150,
     streaming |-> user_log.streaming * 36,
     cloud_storage |-> user_log.cloud_storage * 10,
     device_usage |-> user_log.device_usage * 20]

\* line 156: sorted(activities.items(), key=amount, reverse=True), which
\* keeps the dictionary's order among equal amounts
sorted_activities(amounts) ==
    LET before(j, i) ==
            \/ amounts[ActivityKeys[j]] > amounts[ActivityKeys[i]]
            \/ amounts[ActivityKeys[j]] = amounts[ActivityKeys[i]] /\ j < i
        place(i) == 1 + Cardinality({j \in 1..Len(ActivityKeys) : before(j, i)})
    IN  [p \in 1..Len(ActivityKeys) |->
            ActivityKeys[CHOOSE i \in 1..Len(ActivityKeys) : place(i) = p]]

\* lines 159-173 for one of sorted_activities[:3], with the place random.choice picks
top_activity_recs(amounts, activity, choice) ==
    IF amounts[activity] > 0 /\ activity \in DOMAIN Difficulty
    THEN <<Rec(activity, choice)>>
    ELSE <<>>

\* lines 144-173: the list before the loop that fills it, for each outcome
\* of the three random choices
personal_recommendations(user_log) ==
    LET amounts == activities(user_log)
        top == sorted_activities(amounts)
    IN  {top_activity_recs(amounts, top[1], c[1])
            \o top_activity_recs(amounts, top[2], c[2])
            \o top_activity_recs(amounts, top[3], c[3]) : c \in [1..3 -> 1..3]}

RECURSIVE SumOf(_, _)
SumOf(user_logs, activity) ==
    IF user_logs = <<>> THEN 0
    ELSE user_logs[1][activity] + SumOf(Tail(user_logs), activity)

\* lines 249-258 for one activity: the entries random.sample draws one from
pattern_recs(user_logs, activity) ==
    IF activity \in DOMAIN Difficulty
    THEN IF SumOf(user_logs, activity) > 50 * Len(user_logs)
         THEN {r \in recommendations(activity) : r.difficulty = "hard"}
         ELSE IF SumOf(user_logs, activity) > 20 * Len(user_logs)
              THEN {r \in recommendations(activity) : r.difficulty = "medium"}
              ELSE {}
    ELSE {}

\* lines 237-258: the lists the loop over the activities can build, from
\* the k-th activity on
RECURSIVE pattern_recommendations(_, _)
pattern_recommendations(user_logs, k) ==
    IF k > Len(ActivityKeys) THEN {<<>>}
    ELSE LET here == pattern_recs(user_logs, ActivityKeys[k])
             rest == pattern_recommendations(user_logs, k + 1)
         IN  IF here = {} THEN rest
             ELSE {<<r>> \o later : r \in here, later \in rest}

\* the latest record handed to get_recommendations
LatestLogs ==
    {Activity(e, v, st, c, d) :
        e \in {0, 20, 100}, v \in {0, 2}, st \in {0, 3}, c \in {0, 5, 60}, d \in {0, 8}}

\* non-empty lists of records handed to get_advanced_recommendations
LoggedDays ==
    {NoActivity, FormDefaults, Activity(100, 1, 30, 30, 24), Activity(0, 0, 60, 60, 0)}

LogLists == {<<a>> : a \in LoggedDays} \cup {<<a, b>> : a \in LoggedDays, b \in LoggedDays}

RecommenderInputs ==
    {[op |-> "recommend", method |-> "get_recommendations", user_logs |-> <<l>>,
      pc |-> "start", recommendations |-> <<>>, result |-> <<>>] : l \in LatestLogs}
    \cup {[op |-> "recommend", method |-> "get_advanced_recommendations", user_logs |-> ls,
           pc |-> "start", recommendations |-> <<>>, result |-> <<>>] : ls \in LogLists}

InitRecommender ==
    /\ NothingStored
    /\ calc \in RecommenderInputs

\* get_recommendations lines 144-173, get_advanced_recommendations lines 223-258
Personalise ==
    /\ calc.op = "recommend" /\ calc.pc = "start"
    /\ \E recs \in (IF calc.method = "get_recommendations"
                    THEN personal_recommendations(calc.user_logs[1])
                    ELSE pattern_recommendations(calc.user_logs, 1)) :
          calc' = [calc EXCEPT !.pc = "fill", !.recommendations = recs]
    /\ UNCHANGED Untouched

\* an iteration of the loop of lines 176-180 / 261-265 in which appending
\* does not look whether the entry is in the list
FillGeneralUnchecked(rec) ==
    /\ calc.op = "recommend" /\ calc.pc = "fill"
    /\ Len(calc.recommendations) < 3
    /\ rec \in recommendations("general")
    /\ calc' = [calc EXCEPT !.recommendations = Append(@, rec)]
    /\ UNCHANGED Untouched

\* one iteration of the loop of lines 176-180 / 261-265, random.choice giving rec
FillGeneral(rec) ==
    /\ calc.op = "recommend" /\ calc.pc = "fill"
    /\ Len(calc.recommendations) < 3
    /\ rec \in recommendations("general")
    /\ IF ~InSeq(rec, calc.recommendations)
       THEN calc' = [calc EXCEPT !.recommendations = Append(@, rec)]
       ELSE UNCHANGED calc
    /\ UNCHANGED Untouched

\* lines 182 / 267: the loop's condition is false
ReturnRecommendations ==
    /\ calc.op = "recommend" /\ calc.pc = "fill"
    /\ Len(calc.recommendations) >= 3
    /\ calc' = [calc EXCEPT !.pc = "done",
                            !.result = IF calc.method = "get_recommendations"
                                       THEN calc.recommendations
                                       ELSE head(calc.recommendations, 3)]
    /\ UNCHANGED Untouched

Fill == \E rec \in recommendations("general") : FillGeneral(rec)

NextRecommender ==
    \/ Personalise
    \/ Fill
    \/ ReturnRecommendations

\* the call goes on, and random.choice gives each general entry in the end
SpecRecommender ==
    /\ InitRecommender /\ [][NextRecommender]_vars
    /\ WF_vars(Personalise) /\ WF_vars(ReturnRecommendations)
    /\ \A rec \in recommendations("general") : WF_vars(FillGeneral(rec))

-----------------------------------------------------------------------------

(* Notions the statements below share *)

LogsOf(u) == {r \in activity_logs : r.user_id = u}

Held(u) == get_user_badges(user_badges, u)

\* the sum of dailyScore(co2_grams) over the records of u's activity log
LogScore(u) == SumScores(LogsOf(u))

\* session s has run the score update of a submission at some time
HasScored(s) == session[s].user_score > 0

-----------------------------------------------------------------------------
(* C1: after any sequence of submissions by one user in one session, the   *)
(* persisted total_score equals the sum of dailyScore(co2_grams) over the  *)
(* records now in that user's activity log (a same-day resubmission adds   *)
(* no second day's points).  Stated for the new user "green" worked on by  *)
(* session s1 alone, between submissions.                                  *)
C1_ScoreIsSumOverLog ==
    ( /\ session["s2"] = FreshSession
      /\ session["s1"].pc = "idle"
      /\ session["s1"].authenticated
      /\ session["s1"].user_id = "green" )
    => users["green"].total_score = LogScore("green")

(* C2: when two sessions of the same user have each submitted, the         *)
(* persisted total_score includes the points of both: once both are idle   *)
(* again it equals the points computed for that user so far.               *)
C2_NoLostPoints ==
    \A u \in Usernames :
        ( /\ users[u].registered
          /\ \A s \in Sessions :
                /\ session[s].authenticated
                /\ session[s].user_id = u
                /\ session[s].pc = "idle"
                /\ HasScored(s) )
        => users[u].total_score = credited[u]

(* C4: a user's total_score is a non-negative integer that never decreases *)
(* from one state to the next (no reset happens in Spec).                  *)
C4_ScoreNeverDecreases ==
    [][ \A u \in Usernames :
            users[u].registered =>
                /\ users'[u].registered
                /\ users'[u].total_score >= users[u].total_score
                /\ users[u].total_score \in Nat ]_vars

(* C3: in every reachable state of the store, after any registration,     *)
(* submission and reset, a registered user's current_level is the band of  *)
(* the level table (Bronze 0-100, Silver 101-250, Gold 251-500, Platinum   *)
(* 501-1000, Diamond 1001 and up) that holds the user's total_score.       *)
BandOf(score) ==
    IF score >= 1001 THEN "Diamond"
    ELSE IF score >= 501 THEN "Platinum"
    ELSE IF score >= 251 THEN "Gold"
    ELSE IF score >= 101 THEN "Silver"
    ELSE "Bronze"

\* C3: every registered user's current_level is the band holding total_score
C3_LevelIsBandOfScore ==
    \A u \in Usernames :
        users[u].registered =>
            /\ users[u].total_score >= 0
            /\ users[u].current_level = BandOf(users[u].total_score)

\* a submission has just taken a user from 85 points to 100, the upper edge
\* of Bronze
C3_Witness ==
    \E s \in Sessions :
        /\ session[s].pc = "logs"
        /\ users[session[s].user_id].total_score = 100
        /\ session[s].current_user.total_score = 85
        /\ users[session[s].user_id].current_level = "Bronze"

(* C5: the set of badges a user holds only grows: from one state to the   *)
(* next every held badge stays held, unless the step is the badge deletion *)
(* of a reset run by one of that user's sessions.  A later submission or   *)
(* overwrite that takes the history out of a badge's rule removes nothing. *)
ResetOfBadges(u) ==
    \E s \in Sessions :
        /\ session[s].user_id = u
        /\ session[s].pc = "idle"
        /\ session'[s].pc = "reset_logs"

\* C5: every step keeps each user's held badges, except a reset's deletion
C5_BadgesOnlyGrow ==
    [][ \A u \in Usernames :
            \/ Held(u) \subseteq get_user_badges(user_badges', u)
            \/ ResetOfBadges(u) ]_vars

\* Eco Champion is held although the recent mean is no longer below 500
C5_Witness ==
    /\ "Eco Champion" \in Held("eco")
    /\ Cardinality(LogsOf("eco")) >= EmissionMinLogs
    /\ ~RecentBelow(sort_values(get_user_activity_logs(activity_logs, "eco")),
                    emission_badges["Eco Champion"])

(* C6: there is at most one activity record per (user, date) in every     *)
(* state; and an add_activity_log call that returns leaves, for its (user, *)
(* date), the record holding the call's emails, video_calls, streaming,    *)
(* cloud_storage, device_usage and co2_grams, leaves every other record as *)
(* it was, and leaves the number of records unchanged when the (user,      *)
(* date) already had a record.                                             *)
OneRecordPerDay ==
    \A r1 \in activity_logs, r2 \in activity_logs :
        (r1.user_id = r2.user_id /\ r1.log_date = r2.log_date) => r1 = r2

UpsertReturned(s) == session[s].pc = "idle" /\ session'[s].pc = "score"

\* C6: one record per (user, date); an upsert replaces the six values in place
C6_OneRecordPerUserAndDate ==
    /\ []OneRecordPerDay
    /\ [][ \A s \in Sessions :
              UpsertReturned(s) =>
                  LET u == session[s].user_id
                      HadRecord == \E r \in activity_logs :
                                      r.user_id = u /\ r.log_date = today
                      Others(rows) == {r \in rows : r.user_id # u \/ r.log_date # today}
                  IN  /\ LogRow(u, today, session'[s].form, session'[s].daily_co2)
                            \in activity_logs'
                      /\ Others(activity_logs') = Others(activity_logs)
                      /\ HadRecord =>
                            Cardinality(activity_logs') = Cardinality(activity_logs)
        ]_vars

\* both sessions have called add_activity_log for the same user and day with
\* different values, and the day has one record, holding the later call's
C6_Witness ==
    /\ session["s1"].pc = "score" /\ session["s2"].pc = "score"
    /\ session["s1"].user_id = session["s2"].user_id
    /\ session["s1"].form = FormDefaults /\ session["s2"].form = NoActivity
    /\ \E r \in activity_logs :
          /\ r.user_id = session["s1"].user_id /\ r.log_date = today
          /\ r.co2_grams = Footprint(FormDefaults)
    /\ Cardinality({r \in activity_logs : r.log_date = today}) = 1

(* C8: under any interleaving of two badge evaluations for one user, each *)
(* (user, badge) pair has at most one row in user_badges, award_badge has  *)
(* returned true for it exactly once if the row exists (and never if it    *)
(* does not), and at most one evaluation has reported the badge as newly   *)
(* earned.                                                                 *)
BadgeRowsOf(u, b) == {r \in user_badges : r.user_id = u /\ r.badge_name = b}

\* C8: one row, one true result and at most one report per (user, badge)
C8_OneAwardPerBadge ==
    \A u \in Usernames, b \in BadgeSet :
        /\ Cardinality(BadgeRowsOf(u, b)) <= 1
        /\ award_results[<<u, b>>] = Cardinality(BadgeRowsOf(u, b))
        /\ reported[<<u, b>>] <= 1

\* two evaluations of one user have both called award_badge for Eco Novice:
\* one reports it, the other, which had read the badges before the award, does not
C8_Witness ==
    /\ session["s1"].user_id = session["s2"].user_id
    /\ session["s1"].pc = "refresh" /\ session["s2"].pc = "refresh"
    /\ InSeq("Eco Novice", session["s1"].newly_earned)
    /\ InSeq("Eco Novice", BadgesToTry(session["s2"].logs, session["s2"].current_badges))
    /\ ~InSeq("Eco Novice", session["s2"].newly_earned)

(* C7: badge evaluation is idempotent: a second run (and any later one) on *)
(* the same unchanged history, starting from the badges the run before     *)
(* left, returns an empty newly-earned list and leaves the held badges as  *)
(* they were; for check_and_award_badges over user_badges and for          *)
(* check_badges over the object's earned_badges.                           *)
C7_EvaluationIdempotent ==
    \A s \in Sessions :
        /\ (session[s].pc = "returned" /\ session[s].evaluations >= 2) =>
                /\ session[s].newly_earned = <<>>
                /\ Held(session[s].user_id) = session[s].held_before
        /\ session[s].check_runs >= 2 =>
                /\ session[s].check_newly = <<>>
                /\ session[s].earned_badges = session[s].earned_before

\* both evaluations have run twice, the first runs having awarded Eco Champion
C7_Witness ==
    \E s \in Sessions :
        /\ session[s].pc = "returned" /\ session[s].evaluations = 2
        /\ "Eco Champion" \in session[s].held_before
        /\ session[s].check_runs = 2
        /\ InSeq("Eco Champion", session[s].earned_before)

(* C9: Week Warrior is reported as newly earned only when the history has  *)
(* at least 7 entries and the 7 most recent ones are on 7 consecutive      *)
(* dates, and Consistency King likewise with 30; by either evaluation.     *)
StreakDays ==
    [b \in {"Week Warrior", "Consistency King"} |->
        IF b = "Week Warrior" THEN 7 ELSE 30]

\* u has at least n records and the n latest dates are the latest date and
\* the n - 1 days before it
RecentDatesConsecutive(u, n) ==
    LET dates == {r.log_date : r \in LogsOf(u)}
    IN  /\ Cardinality(dates) >= n
        /\ \E last \in dates :
              /\ \A d \in dates : d <= last
              /\ \A k \in 0..(n - 1) : (last - k) \in dates

\* C9: a streak badge is reported only when the latest N dates are consecutive
C9_StreakNeedsConsecutiveDates ==
    \A s \in Sessions, b \in DOMAIN StreakDays :
        /\ (session[s].pc = "returned" /\ InSeq(b, session[s].newly_earned)) =>
                RecentDatesConsecutive(session[s].user_id, StreakDays[b])
        /\ InSeq(b, session[s].check_newly) =>
                RecentDatesConsecutive(session[s].user_id, StreakDays[b])

(* C10: an evaluation reports an emission badge (Eco Novice, Green         *)
(* Guardian, Carbon Crusher, Eco Champion) as newly earned exactly when    *)
(* the badge was not held before it, the history has at least 3 entries,   *)
(* and the mean co2_grams of the 7 most recent entries (of all of them     *)
(* when fewer) is strictly below 2000, 1500, 1000, 500; by either          *)
(* evaluation.                                                             *)
EmissionThreshold ==
    [b \in {"Eco Novice", "Green Guardian", "Carbon Crusher", "Eco Champion"} |->
        IF b = "Eco Novice" THEN 2000
        ELSE IF b = "Green Guardian" THEN 1500
        ELSE IF b = "Carbon Crusher" THEN 1000
        ELSE 500]

\* the records of u with fewer than 7 records of u after them
MostRecent(u) ==
    {r \in LogsOf(u) : Cardinality({q \in LogsOf(u) : q.log_date > r.log_date}) < 7}

RECURSIVE TotalCo2(_)
TotalCo2(rows) ==
    IF rows = {} THEN 0
    ELSE LET r == CHOOSE x \in rows : TRUE
         IN  r.co2_grams + TotalCo2(rows \ {r})

EmissionBadgeDue(u, b) ==
    /\ Cardinality(LogsOf(u)) >= 3
    /\ TotalCo2(MostRecent(u)) < EmissionThreshold[b] * Cardinality(MostRecent(u))

\* C10: an emission badge is reported exactly when not held before and due
C10_EmissionBadgeExactlyWhenDue ==
    \A s \in Sessions, b \in DOMAIN EmissionThreshold :
        /\ session[s].pc = "returned" =>
                ( InSeq(b, session[s].newly_earned) <=>
                    (b \notin session[s].held_before
                     /\ EmissionBadgeDue(session[s].user_id, b)) )
        /\ session[s].check_runs >= 1 =>
                ( InSeq(b, session[s].check_newly) <=>
                    (~InSeq(b, session[s].earned_before)
                     /\ EmissionBadgeDue(session[s].user_id, b)) )

(* C11: an evaluation reports Improvement Master as newly earned exactly   *)
(* when the badge was not held before it, the history has at least 14      *)
(* entries, the mean of the 7 earliest entries is above 0 and the mean of  *)
(* the 7 latest is at most half of it; a first-week mean of 0 awards       *)
(* nothing and the evaluation returns as usual; by either evaluation.      *)
\* the records of u with fewer than 7 records of u before them
Earliest(u) ==
    {r \in LogsOf(u) : Cardinality({q \in LogsOf(u) : q.log_date < r.log_date}) < 7}

\* with 7 records in each week the ratio of the means is that of the sums
ImprovementDue(u) ==
    /\ Cardinality(LogsOf(u)) >= 14
    /\ TotalCo2(Earliest(u)) > 0
    /\ 2 * (TotalCo2(Earliest(u)) - TotalCo2(MostRecent(u))) >= TotalCo2(Earliest(u))

\* C11: Improvement Master is reported exactly when not held before and due
C11_ImprovementMasterExactlyWhenDue ==
    \A s \in Sessions :
        /\ session[s].pc = "returned" =>
                ( InSeq("Improvement Master", session[s].newly_earned) <=>
                    ("Improvement Master" \notin session[s].held_before
                     /\ ImprovementDue(session[s].user_id)) )
        /\ session[s].check_runs >= 1 =>
                ( InSeq("Improvement Master", session[s].check_newly) <=>
                    (~InSeq("Improvement Master", session[s].earned_before)
                     /\ ImprovementDue(session[s].user_id)) )

\* both evaluations have reported the badge for a fortnight whose second
\* week is exactly half the first
C11_Witness ==
    \E s \in Sessions :
        /\ session[s].pc = "returned"
        /\ InSeq("Improvement Master", session[s].newly_earned)
        /\ InSeq("Improvement Master", session[s].check_newly)
        /\ Cardinality(LogsOf(session[s].user_id)) = 14
        /\ TotalCo2(Earliest(session[s].user_id))
              = 2 * TotalCo2(MostRecent(session[s].user_id))

(* C12: after a full reset of a user (one that no other run of the user's  *)
(* sessions came between) the total_score is 0, the level is               *)
(* Bronze, and the user has no badge and no activity record; and after     *)
(* any submissions made since the reset, the user's total_score, level,    *)
(* badges and records are those of a brand-new user who made the same      *)
(* submissions.  Compared whenever no run of the user is under way.        *)
\* the store of a brand-new user u after the submissions subs, each run to
\* its end before the next, in one session
RECURSIVE NewUserAfter(_, _)
NewUserAfter(u, subs) ==
    IF subs = <<>>
    THEN [total_score |-> 0, current_level |-> "Bronze", logs |-> {}, badges |-> {}]
    ELSE LET before == NewUserAfter(u, SubSeq(subs, 1, Len(subs) - 1))
             sub == subs[Len(subs)]
             co2 == Footprint(sub.act)
             logs == add_activity_log(before.logs, u, sub.log_date, sub.act, co2)
             total == before.total_score + calculate_daily_score(co2)
             tried == BadgesToTry(get_user_activity_logs(logs, u), before.badges)
         IN  [total_score |-> total, current_level |-> get_current_level(total),
              logs |-> logs,
              badges |-> before.badges \cup {tried[i] : i \in 1..Len(tried)}]

NoRunOf(u) == \A s \in Sessions : session[s].user_id = u => session[s].pc = "idle"

\* C12: after a reset, the user's store is that of a new user with the same submissions
C12_ResetGivesNewUser ==
    \A u \in Usernames :
        (users[u].registered /\ since_reset[u].state = "clean" /\ NoRunOf(u)) =>
            LET new == NewUserAfter(u, since_reset[u].subs)
            IN  /\ users[u].total_score = new.total_score
                /\ users[u].current_level = new.current_level
                /\ Held(u) = new.badges
                /\ LogsOf(u) = new.logs

(* C13: a submission is all or nothing: whenever no run of a user is under *)
(* way, also after a run that failed or stopped between two steps, every   *)
(* stored record has had its score update (the points computed for the     *)
(* user are at least those of the records in the log) and the badges have  *)
(* been evaluated for it (a user with a record holds First Steps).         *)
C13_SubmissionAllOrNothing ==
    \A u \in Usernames :
        (users[u].registered /\ NoRunOf(u)) =>
            /\ credited[u] >= LogScore(u)
            /\ LogsOf(u) # {} => "First Steps" \in Held(u)

(* C14: calculate_daily_score returns 20 for co2 <= 500, 15 up to 1000, 10 *)
(* up to 1500, 5 up to 2000, 2 up to 2500 and 1 above 2500, every bound    *)
(* included; so a larger co2 never gets more points, and no co2 gets less  *)
(* than 1 point.                                                           *)
PointsOfBand(co2) ==
    CASE co2 <= 500 -> 20
      [] co2 > 500 /\ co2 <= 1000 -> 15
      [] co2 > 1000 /\ co2 <= 1500 -> 10
      [] co2 > 1500 /\ co2 <= 2000 -> 5
      [] co2 > 2000 /\ co2 <= 2500 -> 2
      [] co2 > 2500 -> 1

\* C14: the points are those of the band table, never below 1 and non-increasing
C14_DailyScoreBands ==
    (calc.op = "score" /\ calc.done) =>
        /\ calc.points = PointsOfBand(calc.daily_co2)
        /\ calc.more_points = PointsOfBand(calc.more_co2)
        /\ calc.points >= 1
        /\ calc.more_points <= calc.points

\* 698 g has been given its 15 points, and 699 g no more than that
C14_Witness ==
    /\ calc.op = "score" /\ calc.done
    /\ calc.daily_co2 = 698 /\ calc.more_co2 = 699
    /\ calc.points = 15

(* C15: for every non-negative integer score get_current_level returns the *)
(* one band of Bronze 0-100, Silver 101-250, Gold 251-500, Platinum        *)
(* 501-1000, Diamond 1001 and up that holds the score; exactly one range   *)
(* of the level table holds it (no gap, no overlap).                       *)
C15_LevelIsTotalFunction ==
    (calc.op = "level" /\ calc.done) =>
        /\ calc.level = BandOf(calc.user_score)
        /\ Cardinality({i \in 1..Len(levels) : InLevel(levels[i], calc.user_score)}) = 1

\* the last score of Gold has been given Gold
C15_Witness ==
    /\ calc.op = "level" /\ calc.done
    /\ calc.user_score = 500
    /\ calc.level = "Gold"

(* C16: the level progress the profile view computes for a stored total s  *)
(* is (s - band.min) / (band.max - band.min) * 100 within [0, 100], for    *)
(* the band that holds s, and 100 when s is in Diamond (in hundredths of a *)
(* percent, cut off below).                                                *)
BandMin(level) ==
    CASE level = "Bronze" -> 0
      [] level = "Silver" -> 101
      [] level = "Gold" -> 251
      [] level = "Platinum" -> 501
      [] level = "Diamond" -> 1001

BandMax(level) ==
    CASE level = "Bronze" -> 100
      [] level = "Silver" -> 250
      [] level = "Gold" -> 500
      [] level = "Platinum" -> 1000

ProgressInBand(s) ==
    LET band == BandOf(s)
    IN  IF band = "Diamond" THEN 10000
        ELSE ((s - BandMin(band)) * 10000) \div (BandMax(band) - BandMin(band))

\* C16: the progress shown is the position of the total within its own band
C16_ProgressWithinOwnBand ==
    (calc.op = "progress" /\ calc.done) =>
        calc.progress = ProgressInBand(calc.total_score)

(* C17: for non-negative integer inputs calculate_daily_footprint returns  *)
(* 4*emails + 150*video hours + 36*streaming hours + 10*cloud GB +         *)
(* 20*device hours, and the five values of get_activity_breakdown for the  *)
(* same inputs add up to the same number.                                  *)
C17_FootprintIsWeightedSum ==
    (calc.op = "footprint" /\ calc.done) =>
        /\ calc.total = 4 * calc.act.emails + 150 * calc.act.video_calls
                         + 36 * calc.act.streaming + 10 * calc.act.cloud_storage
                         + 20 * calc.act.device_usage
        /\ calc.breakdown.Emails + calc.breakdown.VideoCalls + calc.breakdown.Streaming
              + calc.breakdown.CloudStorage + calc.breakdown.DeviceUsage = calc.total

\* the inputs 20, 2, 3, 5, 8 have given 698
C17_Witness ==
    /\ calc.op = "footprint" /\ calc.done
    /\ calc.act = Activity(20, 2, 3, 5, 8)
    /\ calc.total = 698

(* C18: badge evaluation on an empty history returns an empty             *)
(* newly-earned list, awards nothing and leaves the held badges as they    *)
(* were; it returns (nothing is raised); by either evaluation.             *)
C18_EmptyHistoryAwardsNothing ==
    \A s \in Sessions :
        LogsOf(session[s].user_id) = {} =>
            /\ session[s].pc = "returned" =>
                    /\ session[s].newly_earned = <<>>
                    /\ Held(session[s].user_id) = session[s].held_before
            /\ session[s].check_runs >= 1 =>
                    /\ session[s].check_newly = <<>>
                    /\ session[s].earned_badges = session[s].earned_before

\* both evaluations have returned for a user with no record and no badge
C18_Witness ==
    \E s \in Sessions :
        /\ session[s].authenticated
        /\ LogsOf(session[s].user_id) = {}
        /\ Held(session[s].user_id) = {}
        /\ session[s].pc = "returned"
        /\ session[s].check_runs >= 1

(* C19: every operation performed for one user (registration, submission, *)
(* score update, badge award, reset) leaves every other user's row,        *)
(* activity records and badges unchanged: whenever a step changes what the *)
(* store holds for a user, the session taking the step is working for that *)
(* user.                                                                   *)
WorksFor(s, u) ==
    \/ session[s].user_id = u
    \/ session[s].pc = "create" /\ session[s].username = u

StoreChangesFor(u) ==
    \/ users'[u] # users[u]
    \/ {r \in activity_logs' : r.user_id = u} # {r \in activity_logs : r.user_id = u}
    \/ {r \in user_badges' : r.user_id = u} # {r \in user_badges : r.user_id = u}

\* C19: a step changes only the store of the user its session works for
C19_OtherUsersUntouched ==
    [][ \A u \in Usernames :
            StoreChangesFor(u) =>
                \E s \in Sessions : session'[s] # session[s] /\ WorksFor(s, u) ]_vars

\* two users at work at once: eco's submission is between its record and
\* its score update while green's has been scored
C19_Witness ==
    /\ session["s1"].user_id = "eco" /\ session["s2"].user_id = "green"
    /\ session["s1"].pc = "score"
    /\ session["s2"].pc = "logs"
    /\ users["green"].total_score > 0
    /\ users["eco"].total_score = 85

(* C20: the badges one evaluation awards depend only on the records and   *)
(* the held badges, not on the order in which the records are handed to    *)
(* it: in any order of the same history (one record per date) the          *)
(* evaluation awards what it awards in the store's order; by either        *)
(* evaluation.                                                             *)
C20_OrderOfRecordsIrrelevant ==
    (calc.op = "badges" /\ calc.done) =>
        LET stored == get_user_activity_logs(calc.rows, "eco")
            earned_badges == SelectSeq(BadgeNames, LAMBDA b : b \in calc.held)
        IN  /\ calc.app_newly = BadgesToTry(stored, calc.held)
            /\ calc.lib_newly = check_badges(earned_badges, stored).newly_earned

\* eight records of 2000 g with the oldest at 490 g, handed over oldest
\* last but one: the latest seven average 2000 and Eco Novice is not awarded
C20_Witness ==
    /\ calc.op = "badges" /\ calc.done
    /\ calc.order = [shift |-> 1, reversed |-> FALSE]
    /\ Cardinality(calc.rows) = 8
    /\ \A r \in calc.rows : r.co2_grams = (IF r.log_date = 1 THEN 490 ELSE 2000)
    /\ calc.held = {}
    /\ ~InSeq("Eco Novice", calc.app_newly)
    /\ InSeq("Week Warrior", calc.lib_newly)

\* the positions a submission passes through, each with those that may follow
SubmissionOrder ==
    {<<"idle", "score">>, <<"score", "logs">>, <<"logs", "badges">>,
     <<"logs", "refresh">>, <<"badges", "award">>, <<"badges", "refresh">>,
     <<"award", "refresh">>, <<"refresh", "idle">>}

\* the record of user u for the day log_date is in rows (a set or a sequence's range)
HasRecordOf(rows, u, log_date) ==
    \E r \in rows : r.user_id = u /\ r.log_date = log_date

(* C21: within one submission the steps happen in the order footprint,    *)
(* persist, score and level, badge evaluation, refresh: the score update   *)
(* finds the day's record stored, the evaluation reads a history that      *)
(* holds the record of the day submitted, the user holds First Steps when  *)
(* the evaluation of a submission has returned, and when the submission    *)
(* ends the session's cached user is the stored user row.                  *)
C21_SubmissionStepsInOrder ==
    [][ \A s \in Sessions :
          LET before == session[s]
              after == session'[s]
              u == before.user_id
              in_form == before.caller = "form" \/ after.caller = "form"
          IN  (in_form /\ after.pc # before.pc) =>
                /\ <<before.pc, after.pc>> \in SubmissionOrder
                /\ before.pc = "idle" =>
                      /\ after.daily_co2 = Footprint(after.form)
                      /\ HasRecordOf(activity_logs', u, today)
                /\ before.pc = "score" =>
                      /\ HasRecordOf(activity_logs, u, today)
                      /\ users'[u].total_score = after.user_score
                      /\ users'[u].current_level = get_current_level(after.user_score)
                /\ before.pc = "logs" =>
                      HasRecordOf({after.logs[i] : i \in 1..Len(after.logs)}, u, today)
                /\ after.pc = "refresh" => "First Steps" \in get_user_badges(user_badges', u)
                /\ before.pc = "refresh" => after.current_user = users'[u] ]_vars

\* eco's first submission ever, of no activity at all, has ended: the record
\* is stored, 20 points are in the row and in the session's cached user, and
\* First Steps is held
C21_Witness ==
    /\ session["s1"].pc = "idle" /\ session["s1"].authenticated
    /\ handler_runs = 1
    /\ Cardinality(LogsOf("eco")) = 1
    /\ users["eco"].total_score = 20
    /\ session["s1"].current_user = users["eco"]
    /\ award_results[<<"eco", "First Steps">>] = 1
    /\ Held("eco") = {"First Steps"}

(* C22: if model training fails while a CarbonPredictor is constructed,    *)
(* construction still succeeds with the predictor left untrained, and      *)
(* every later predict_emissions call returns exactly (4*emails +          *)
(* 150*video_calls + 36*streaming + 10*cloud_storage + 20*device_usage)    *)
(* * days without raising.                                                 *)
C22_FailedTrainingFallsBack ==
    (calc.op = "predictor" /\ calc.done /\ calc.fail # "none") =>
        /\ ~calc.predictor.is_trained
        /\ calc.predictor.model = "None"
        /\ calc.calls > 0 =>
              /\ ~calc.result.raised
              /\ calc.result.value =
                    (4 * calc.act.emails + 150 * calc.act.video_calls
                     + 36 * calc.act.streaming + 10 * calc.act.cloud_storage
                     + 20 * calc.act.device_usage) * calc.days

\* the fit raised after the scaler was fitted; the second call since then
\* predicts a week of 25 emails, 3 h of calls and 9 h of device use
C22_Witness ==
    /\ calc.op = "predictor" /\ calc.done /\ calc.fail = "fit"
    /\ calc.predictor.scaler_fitted
    /\ calc.calls = 2
    /\ calc.act = Activity(25, 3, 0, 0, 9) /\ calc.days = 7
    /\ calc.result.value = 5110

\* session s takes a step of login_page
LoginStep(s) ==
    /\ session'[s] # session[s]
    /\ \/ ~session[s].authenticated /\ session[s].pc = "idle"
       \/ session[s].pc \in {"create", "fetch"}

(* C23: a newly registered user starts with total_score 0, level Bronze    *)
(* and an empty badge set; logging in with a username that already exists  *)
(* (two sessions registering the same new username at the same time        *)
(* included) never changes that user's total_score, current_level, badges  *)
(* or activity records.                                                    *)
C23_LoginKeepsProgress ==
    [][ \A s \in Sessions :
          LoginStep(s) =>
            /\ activity_logs' = activity_logs
            /\ user_badges' = user_badges
            /\ \A u \in Usernames :
                  IF users[u].registered
                  THEN users'[u] = users[u]
                  ELSE users'[u].registered =>
                          /\ u = session[s].username
                          /\ users'[u].total_score = 0
                          /\ users'[u].current_level = "Bronze"
                          /\ get_user_badges(user_badges', u) = {}
                          /\ {r \in activity_logs' : r.user_id = u} = {} ]_vars

\* both sessions found no user "green"; s1 registered it, logged in and
\* scored a submission; s2's create_user has now run into the existing row
C23_Witness ==
    /\ session["s2"].pc = "fetch" /\ session["s2"].username = "green"
    /\ session["s1"].user_id = "green" /\ session["s1"].authenticated
    /\ users["green"].total_score = 20
    /\ Cardinality(LogsOf("green")) = 1

(* C24: when the user presses 'Reset All Data' and then, on the page of    *)
(* the run that follows, 'Confirm Reset', delete_user_data is eventually   *)
(* invoked for that user.                                                  *)
C24_ConfirmLeadsToReset ==
    \A s \in Sessions :
        (session[s].clicked = "confirm_reset") ~> (session[s].delete_calls > 0)

(* C25: for every activity history of non-negative co2_grams values and    *)
(* every stored score, each value passed to a progress bar lies in [0, 1]: *)
(* the dashboard's green score / 100, the profile's level progress / 100,  *)
(* and the community challenge progress                                    *)
(* min(100, (2500 - mean of the 7 most recent co2) / 2500 * 100) / 100.    *)
C25_ProgressValuesInUnitInterval ==
    (calc.op = "page" /\ calc.bars_done) =>
        /\ ProgressAccepts(calc.green)
        /\ ProgressAccepts(calc.level)
        /\ calc.challenge.shown => ProgressAccepts(calc.challenge.value)

(* C26: for every activity record the submission form can store as a       *)
(* user's latest record, one whose five activity counts are all 0          *)
(* included, the optimization-scenario savings percentages (savings /      *)
(* current footprint * 100) are computed without a division by zero.       *)
C26_SavingsPercentNeverDividesByZero ==
    (calc.op = "page" /\ calc.scenarios_done /\ calc.scenarios_shown) =>
        /\ ~calc.scenarios.eco.raised
        /\ ~calc.scenarios.champion.raised

\* the category of self.recommendations that belongs to an activity
CategoryOf(activity) == IF activity = "emails" THEN "email" ELSE activity

(* C27: get_recommendations returns, for each of the user's three          *)
(* highest-CO2 activities that has a positive CO2 amount, one              *)
(* recommendation taken from that activity's own category; so when emails  *)
(* are among the three highest with a positive amount, the result holds a  *)
(* recommendation from the email category.                                 *)
C27_TopActivitiesGetOwnCategory ==
    (calc.op = "recommend" /\ calc.method = "get_recommendations" /\ calc.pc = "done") =>
        LET amounts == activities(calc.user_logs[1])
            top == sorted_activities(amounts)
        IN  \A p \in 1..3 :
                amounts[top[p]] > 0 =>
                    \E i \in 1..Len(calc.result) :
                        calc.result[i].category = CategoryOf(top[p])

NoRepeats(seq) == \A i, j \in 1..Len(seq) : i # j => seq[i] # seq[j]

(* C28: for every activity log (and every non-empty list of logs),         *)
(* get_recommendations and get_advanced_recommendations terminate, given   *)
(* that the random choice picks each general recommendation in the end,    *)
(* and return exactly 3 recommendations with no entry repeated.            *)
C28_RecommendationsTerminateWithThree ==
    (calc.op = "recommend") ~>
        (calc.pc = "done" /\ Len(calc.result) = 3 /\ NoRepeats(calc.result))

\* get_advanced_recommendations on a day of 60 h streaming and 60 GB: only
\* cloud storage has a hard entry, and two general entries fill the list
C28_Witness ==
    /\ calc.op = "recommend" /\ calc.method = "get_advanced_recommendations"
    /\ calc.pc = "done"
    /\ calc.user_logs = <<Activity(0, 0, 60, 60, 0)>>
    /\ calc.result = <<Rec("cloud_storage", 3), Rec("general", 3), Rec("general", 1)>>

\* of the emission badges, whoever holds one holds those of the higher thresholds
DownwardClosed(held) ==
    /\ "Eco Champion" \in held => "Carbon Crusher" \in held
    /\ "Carbon Crusher" \in held => "Green Guardian" \in held
    /\ "Green Guardian" \in held => "Eco Novice" \in held

(* C29: in every state reached after a completed badge evaluation in a     *)
(* single session, the held emission badges are downward closed: holding   *)
(* Eco Champion implies holding Carbon Crusher, Carbon Crusher implies     *)
(* Green Guardian, and Green Guardian implies Eco Novice; in the store     *)
(* after check_and_award_badges and in the object after check_badges.      *)
C29_EmissionBadgesDownwardClosed ==
    \A s \in Sessions :
        /\ (session[s].evaluations >= 1 /\ session[s].pc \in {"returned", "idle"}) =>
                DownwardClosed(Held(session[s].user_id))
        /\ session[s].check_runs >= 1 =>
                DownwardClosed({session[s].earned_badges[i] :
                                    i \in 1..Len(session[s].earned_badges)})

\* Eco Novice was held; the second evaluation has returned, and the first
\* had awarded the other three on a recent mean below 500 g
C29_Witness ==
    /\ session["s1"].pc = "returned" /\ session["s1"].evaluations = 2
    /\ session["s1"].check_runs = 1
    /\ award_results[<<"eco", "Eco Champion">>] = 1
    /\ reported[<<"eco", "Eco Novice">>] = 0
    /\ {"Eco Novice", "Green Guardian", "Carbon Crusher", "Eco Champion"} \subseteq Held("eco")
    /\ InSeq("Eco Champion", session["s1"].earned_badges)

\* the positions of a run of the main view
MainViewPositions == {"score", "logs", "badges", "award", "refresh", "returned",
                      "reset_logs", "reset_score"}

(* C30: in every reachable session state, authenticated = true implies     *)
(* that current_user and user_id are both set and refer to the same stored *)
(* user; a login with a username shorter than 3 characters leaves the      *)
(* session unauthenticated (and registers nobody); logout sets             *)
(* authenticated to false and clears current_user and user_id; and the     *)
(* main view, and so any submission or reset, runs only while              *)
(* authenticated.                                                          *)
C30_AuthenticatedSessionHasItsUser ==
    /\ \A s \in Sessions :
          /\ session[s].authenticated =>
                /\ session[s].current_user # NoUser
                /\ session[s].user_id # "none"
                /\ session[s].current_user.username = session[s].user_id
                /\ users[session[s].user_id].registered
                /\ Len(session[s].user_id) >= MinUsernameLen
          /\ ~session[s].authenticated =>
                /\ session[s].current_user = NoUser
                /\ session[s].user_id = "none"
                /\ session[s].pc \notin MainViewPositions
    /\ \A u \in Usernames : users[u].registered => Len(u) >= MinUsernameLen
    /\ \A r \in activity_logs \cup user_badges : users[r.user_id].registered

\* s1 has registered "green", submitted, and logged out again, while s2 is
\* logged in as "eco" in the middle of a submission
C30_Witness ==
    /\ ~session["s1"].authenticated /\ session["s1"].current_user = NoUser
    /\ session["s1"].user_score = 20
    /\ users["green"].registered /\ users["green"].total_score = 20
    /\ session["s2"].authenticated /\ session["s2"].user_id = "eco"
    /\ session["s2"].pc = "logs"

=============================================================================
